---- MODULE Spec2Model ----
(***************************************************************************)
(* CineSync: the metadata resolver of MediaHub/api/tmdb_api.py             *)
(* (search_tv_show, search_movie and their helpers) and the symlink        *)
(* materializer of Scripts/library.py (process_file).                      *)
(*                                                                         *)
(* A resolver call is a frame that advances from one blocking point (a     *)
(* network request, the console prompt) to the next; every request draws   *)
(* its outcome (transport failure, empty, candidates) from a small set.    *)
(***************************************************************************)
EXTENDS Integers, Sequences, FiniteSets, TLC

VARIABLES
    apiKey,     \* tmdb_api.api_key is set (module global, tmdb_api.py:14)
    cache,      \* tmdb_api._api_cache: (query, year) -> stored value
    lru,        \* the functools.lru_cache tables: <<arguments, returned value>>
    frame,      \* per worker: the running call of search_tv_show / search_movie
    calls,      \* number of resolver calls started so far
    completed,  \* history: keys whose resolution returned through the cache
    fs,         \* the destination tree: what is at each destination path
    dirs,       \* the directories that exist under the destination root
    destIndex,  \* dest_index, the listing taken by build_dest_index
    mat,        \* per worker: the running call of process_file
    tasks,      \* number of process_file calls started so far
    streak,     \* history: the repetitions of one (source, destination) pair
    tree,       \* the folder names found under the destination root
    startTree,  \* history: the folder names there when the run began
    vf,         \* per worker: the running call of process_movie / process_show
    items,      \* number of items handed to process_movie / process_show
    config,     \* the environment: SOURCE_DIR and DESTINATION_DIR
    run,        \* where the program is: __main__, create_symlinks, or over
    failed,     \* a task whose result was collected had raised
    srcs,       \* the source tree: what is at each source path
    season,     \* the call of process_file that classifies a file and places it
    fn,         \* the call of get_episode_name, or the composition of a name
    pool        \* create_symlinks: the walk, the submitted tasks, the wait

rvars == <<apiKey, cache, lru, frame, calls, completed>>

mvars == <<fs, dirs, destIndex, mat, tasks, streak>>

vvars == <<tree, startTree, vf, items>>

\* The variables outside the resolver and the materializer.
cvars == <<config, run, failed, srcs>>

svars == <<season, fn, pool>>

xvars == <<vvars, cvars, svars>>

vars == <<rvars, mvars, xvars>>

-----------------------------------------------------------------------------
(* Bounds *)

MaxCalls == 1
RaceCalls == 2
MaxResults == 2
NumWorkers == 2
MaxTasks == 3
MaxItems == 2
MaxEntries == 2
MaxMarkers == 2
MaxEpisode == 21
MaxTotal == 10
MaxWalk == 3
MaxWords == 5
MaxAtoms == 4

-----------------------------------------------------------------------------
(* Values *)

None == "None"

Workers == 1..NumWorkers

Kinds == {"tv", "movie"}

\* Query strings handed to the resolver. "Beta 2019 HDR" is changed by
\* clean_query (a noise token and a year token), "Alpha" is not.
Titles == {"Alpha", "Beta 2019 HDR"}
Years == {"2020"}

Keys == Titles \X (Years \cup {None})

CandSeq == <<"c1", "c2", "c3", "c4">>

\* What the provider may answer to a search: the first n candidates of its
\* ranking, or a different single candidate.
Responses ==
    {SubSeq(CandSeq, 1, n) : n \in (0..MaxResults) \cup {Len(CandSeq)}}
        \cup {<<"c2">>}

\* A request ends in a transport failure or with an answer; the empty answer
\* is <<>> for every kind of request.
Fail == <<"!fail">>
Empty == <<>>

SearchOutcomes == Responses \cup {Fail}

\* What may be typed at the prompt.
Choices == {"", "x", "0", "1", "2", "3", "4"}

Absent == [tag |-> "absent", val |-> None, ext |-> None]
Unres(q) == [tag |-> "query", val |-> q, ext |-> None]
Proper(c, e) == [tag |-> "name", val |-> c, ext |-> e]
IdTuple(c, e) == [tag |-> "ids", val |-> c, ext |-> e]
FileTuple(f) == [tag |-> "filetuple", val |-> f, ext |-> None]
Err(e) == [tag |-> "error", val |-> e, ext |-> None]

Req(k, yr, hit) == [k |-> k, yr |-> yr, hit |-> hit]

IdleFrame == [pc |-> "idle", step |-> None,
              args |-> [kind |-> None, q |-> None, y |-> None, auto |-> FALSE,
                        dir |-> None, file |-> None],
              results |-> <<>>,
              firstHit |-> <<>>, chosen |-> None, choice |-> None,
              ret |-> Absent, reqs |-> <<>>, late |-> FALSE, last |-> None,
              listed |-> <<>>]

KeyOf(a) == <<a.q, a.y>>

-----------------------------------------------------------------------------
(* Helpers of the resolver *)

\* utils.file_utils.clean_query on the strings of this model: the title with
\* noise tokens and everything from the year token on removed, and the year.
CleanQuery(s) ==
    IF s = "Beta 2019 HDR" THEN [title |-> "Beta", year |-> "2019"]
    ELSE [title |-> s, year |-> None]

\* A perform_search that hands a transport failure on as its result.
PerformSearchUncaught(o) == o

\* perform_search: the candidates of the response; a transport failure is
\* caught and gives the empty list.
PerformSearch(o) == IF o = Fail THEN <<>> ELSE o

\* str.isdigit() and int() on what was typed.
IsDigit(c) == c \in {"0", "1", "2", "3", "4"}
IntOf(c) == CASE c = "0" -> 0 [] c = "1" -> 1 [] c = "2" -> 2
              [] c = "3" -> 3 [] c = "4" -> 4 [] OTHER -> -1

\* The largest number the prompt accepts.
PromptMax == 3

\* `choice.isdigit() and 1 <= int(choice) <= 3`
ChoiceAccepted(c) == IsDigit(c) /\ 1 <= IntOf(c) /\ IntOf(c) <= PromptMax

\* An if-chain with the parenthetical-stripped search before the web fallback.
TvOrderStripFirst ==
    <<"primary", "extracted", "parenstrip", "web", "cleanfile", "yearonly",
      "cleanquery", "dir">>

\* The if-chain of the cascade, in the order of the code.
TvOrder == <<"primary", "extracted", "web", "parenstrip", "cleanfile",
             "yearonly", "cleanquery", "dir">>
MovieOrder == <<"primary", "extracted", "cleanfile", "web", "parenstrip",
                "yearonly", "cleanquery", "dir">>

\* The condition, besides `not results`, under which a step is attempted.
Applicable(s, a) ==
    CASE s = "parenstrip" -> a.y # None
      [] s = "cleanfile" -> a.kind = "tv" \/ a.file # None
      [] s = "yearonly" -> a.y # None
      [] s = "cleanquery" -> CleanQuery(a.q).title # a.q
      [] s = "dir" -> a.dir # None
      [] OTHER -> TRUE

\* The next step of the if-chain after step s that is attempted while the
\* results stay empty; "end" when none is left.
NextStep(s, a) ==
    LET ord == IF a.kind = "tv" THEN TvOrder ELSE MovieOrder
        at == CHOOSE i \in 1..Len(ord) : ord[i] = s
        later == {j \in (at + 1)..Len(ord) : Applicable(ord[j], a)}
    IN IF later = {} THEN "end"
       ELSE ord[CHOOSE j \in later : \A k \in later : j <= k]

\* The blocking point at which a step starts.
PcOf(s) == CASE s = "web" -> "web" [] s = "yearonly" -> "yearonly"
             [] OTHER -> "fetch1"

\* The year fetch_results is called with at a step.
FetchYear(s, a) ==
    CASE s = "cleanquery" -> IF a.y # None THEN a.y ELSE CleanQuery(a.q).year
      [] s = "dir" -> IF a.y # None THEN a.y ELSE CleanQuery(a.dir).year
      [] OTHER -> a.y

\* A fetch_results that sends the query alone first in both resolvers.
FirstWithYearNever(s, a) == FALSE

\* fetch_results: whether the first request carries the year. search_tv_show
\* sends the query alone first, search_movie the query with the year.
FirstWithYear(s, a) == a.kind = "movie" /\ FetchYear(s, a) # None

-----------------------------------------------------------------------------
(* Frame updates *)

\* The function returns v.
Returned(f, v) == [f EXCEPT !.pc = "done", !.ret = v]

\* An exception leaves the function.
Raised(f, e) == [f EXCEPT !.pc = "raised", !.ret = Err(e)]

OutOf(o) == IF o = Fail THEN "fail" ELSE "ok"

\* A request was answered with outcome o and gave the candidates r: it is
\* logged, and the first non-empty answer of the call is kept.
Answered(f, k, yr, r, o) ==
    [f EXCEPT !.reqs = Append(@, Req(k, yr, r # <<>>)),
              !.last = OutOf(o),
              !.firstHit = IF @ = <<>> THEN r ELSE @]

\* Selection among the candidates r that always lists them and prompts.
SelectedByPrompt(f, r) ==
    [f EXCEPT !.pc = "prompt", !.results = r,
              !.listed = SubSeq(r, 1, IF Len(r) < PromptMax THEN Len(r)
                                      ELSE PromptMax)]

\* Selection among the candidates r: auto_select or a single candidate take
\* results[0], otherwise results[:3] is listed and the prompt follows.
Selected(f, r) ==
    IF f.args.auto \/ Len(r) = 1
    THEN [f EXCEPT !.pc = "extids", !.results = r, !.chosen = r[1]]
    ELSE [f EXCEPT !.pc = "prompt", !.results = r,
                   !.listed = SubSeq(r, 1, IF Len(r) < PromptMax THEN Len(r)
                                           ELSE PromptMax)]

-----------------------------------------------------------------------------
(* The effect of a step: the next frame, cache, lru table and history *)

St(f, c, l, d) == [f |-> f, c |-> c, l |-> l, d |-> d]

Go(f) == St(f, cache, lru, completed)

\* `return v` with the cache set to c; lru_cache stores v under the call's
\* arguments. viaCache: v was read from or written to _api_cache.
Return(f, v, c, viaCache) ==
    St(Returned(f, v), c,
       {p \in lru : p[1] # f.args} \cup {<<f.args, v>>},
       IF viaCache THEN completed \cup {KeyOf(f.args)} ELSE completed)

\* An unresolved return that has asked for external ids all the same.
ReturnUnresolvedAsking(f) ==
    Return([f EXCEPT !.reqs = Append(@, Req("extids", FALSE, FALSE))],
           Unres(f.args.q),
           [cache EXCEPT ![KeyOf(f.args)] = Unres(f.args.q)], TRUE)

\* `_api_cache[cache_key] = f"{query}"; return f"{query}"`
ReturnUnresolved(f) ==
    Return(f, Unres(f.args.q),
           [cache EXCEPT ![KeyOf(f.args)] = Unres(f.args.q)], TRUE)

\* A cascade that goes through its remaining steps whatever was found.
ContinueThroughHits(f, r) ==
    LET n == NextStep(f.step, f.args)
    IN IF n # "end"
       THEN Go([f EXCEPT !.pc = PcOf(n), !.step = n, !.results = r])
       ELSE IF r # <<>> THEN Go(Selected(f, r))
       ELSE ReturnUnresolved([f EXCEPT !.results = r])

\* The code that follows a cascade step which ended with the candidates r.
Continue(f, r) ==
    IF f.args.kind = "movie" /\ f.step = "cleanfile"
    THEN \* search_movie: `return file, cleaned_title`
         Return([f EXCEPT !.results = r], FileTuple(f.args.file), cache, FALSE)
    ELSE IF r # <<>>
    THEN Go(Selected(f, r))
    ELSE LET n == NextStep(f.step, f.args)
         IN IF n = "end"
            THEN ReturnUnresolved([f EXCEPT !.results = r])
            ELSE Go([f EXCEPT !.pc = PcOf(n), !.step = n, !.results = r])

\* check_api_key with a key set, and `if not check_api_key(): return query`.
CheckApiKey(f, o) ==
    LET g == [f EXCEPT !.reqs = Append(@, Req("config", FALSE, FALSE)),
                       !.last = OutOf(o)]
    IN IF o = Fail
       THEN Return(g, Unres(f.args.q), cache, FALSE)
       ELSE Go([g EXCEPT !.pc = "lookup"])

\* check_api_key without a key: False, and no request.
NoApiKey(f) == Return(f, Unres(f.args.q), cache, FALSE)

\* `if cache_key in _api_cache: return _api_cache[cache_key]`
CacheLookup(f) ==
    IF cache[KeyOf(f.args)] # Absent
    THEN Return(f, cache[KeyOf(f.args)], cache, TRUE)
    ELSE Go([f EXCEPT !.pc = "fetch1", !.step = "primary"])

\* fetch_results, first request.
FetchResultsFirst(f, o) ==
    LET r == PerformSearch(o)
        g == Answered(f, f.step, FirstWithYear(f.step, f.args), r, o)
    IN IF r = <<>> /\ FetchYear(f.step, f.args) # None
       THEN Go([g EXCEPT !.pc = "fetch2"])
       ELSE Continue(g, r)

\* fetch_results, second request (`if not response and year`).
FetchResultsSecond(f, o) ==
    LET r == PerformSearch(o)
    IN Continue(Answered(f, f.step, ~FirstWithYear(f.step, f.args), r, o), r)

\* perform_fallback_tv_search, the request to the public search page: a
\* failure or a page without a result link give [], a link the details request.
PerformFallbackTvSearch(f, o) ==
    LET g == Answered(f, "web", FALSE, <<>>, o)
    IN IF o = <<"link">>
       THEN Go([g EXCEPT !.pc = "details"])
       ELSE Continue(g, <<>>)

\* perform_fallback_tv_search, the details request for the scraped id.
FallbackDetails(f, o) ==
    LET r == IF o = Fail THEN <<>> ELSE o
    IN Continue(Answered(f, "details", FALSE, r, o), r)

\* The year-only request: on a transport failure `results` keeps its value.
YearOnlySearch(f, o) ==
    LET r == IF o = Fail THEN f.results ELSE o
    IN Continue(Answered(f, "yearonly", FALSE, r, o), r)

\* input(...): `results[int(choice) - 1]` for an accepted choice, None (and
\* the query stored and returned) otherwise.
PromptChoice(f, c) ==
    LET g == [f EXCEPT !.choice = c]
    IN IF ChoiceAccepted(c)
       THEN IF IntOf(c) > Len(f.results)
            THEN Go(Raised(g, "IndexError"))
            ELSE Go([g EXCEPT !.pc = "extids", !.chosen = f.results[IntOf(c)]])
       ELSE ReturnUnresolved(g)

\* get_external_ids ({} on a transport failure) for the chosen candidate; the
\* name is composed, stored and returned. search_movie returns the tuple
\* (tmdb_id, imdb_id, movie_name) instead of the name it stores.
GetExternalIds(f, o) ==
    LET e == IF o = <<"ids">> THEN "ids" ELSE "noids"
        g == [f EXCEPT !.reqs = Append(@, Req("extids", FALSE, FALSE)),
                       !.last = OutOf(o)]
        name == Proper(f.chosen, e)
    IN Return(g, IF f.args.kind = "tv" THEN name ELSE IdTuple(f.chosen, e),
              [cache EXCEPT ![KeyOf(f.args)] = name], TRUE)

\* The step of frame f at its blocking point, for the outcome o of its request.
StepRes(f, o) ==
    CASE f.pc = "keycheck" -> CheckApiKey(f, o)
      [] f.pc = "fetch1" -> FetchResultsFirst(f, o)
      [] f.pc = "fetch2" -> FetchResultsSecond(f, o)
      [] f.pc = "web" -> PerformFallbackTvSearch(f, o)
      [] f.pc = "details" -> FallbackDetails(f, o)
      [] f.pc = "yearonly" -> YearOnlySearch(f, o)
      [] f.pc = "extids" -> GetExternalIds(f, o)
      [] OTHER -> Go(f)

-----------------------------------------------------------------------------
(* The resolver's actions *)

Apply(w, x) ==
    /\ frame' = [frame EXCEPT ![w] = x.f]
    /\ cache' = x.c
    /\ lru' = x.l
    /\ completed' = x.d

AllArgs ==
    [kind : Kinds, q : Titles, y : Years \cup {None}, auto : BOOLEAN,
     dir : {"Gamma", None}, file : {"Alpha.S01E01.mkv", None}]

\* The arguments of the concurrent workers: one key, the file name given.
RaceArgs ==
    {a \in AllArgs : a.q = "Alpha" /\ a.y # None /\ a.dir = None /\ a.file # None}

\* A call enters search_tv_show / search_movie through lru_cache: a stored
\* value for the same arguments is returned at once.
CallWith(w, a) ==
    LET f == [IdleFrame EXCEPT !.args = a, !.late = KeyOf(a) \in completed]
    IN /\ frame[w].pc = "idle"
       /\ frame' = [frame EXCEPT ![w] =
              IF \E p \in lru : p[1] = a
              THEN Returned(f, (CHOOSE p \in lru : p[1] = a)[2])
              ELSE [f EXCEPT !.pc = "keycheck"]]
       /\ calls' = calls + 1
       /\ UNCHANGED <<apiKey, cache, lru, completed, mvars, xvars>>

R_Call(w) == calls < MaxCalls /\ \E a \in AllArgs : CallWith(w, a)

R_CallRace(w) == calls < RaceCalls /\ \E a \in RaceArgs : CallWith(w, a)

R_KeyCheck(w) ==
    /\ frame[w].pc = "keycheck"
    /\ IF apiKey
       THEN \E o \in {Fail, <<"ok">>} : Apply(w, CheckApiKey(frame[w], o))
       ELSE Apply(w, NoApiKey(frame[w]))
    /\ UNCHANGED <<apiKey, calls, mvars, xvars>>

R_Lookup(w) ==
    /\ frame[w].pc = "lookup"
    /\ Apply(w, CacheLookup(frame[w]))
    /\ UNCHANGED <<apiKey, calls, mvars, xvars>>

\* search_tv_show computes the query of its cleaned-file-name step with
\* clean_query(file); what clean_query does with no file name is not known
\* (the function is not in the sources): it raises or gives some query.
R_Fetch1(w) ==
    /\ frame[w].pc = "fetch1"
    /\ \/ /\ frame[w].args.kind = "tv"
          /\ frame[w].step = "cleanfile"
          /\ frame[w].args.file = None
          /\ Apply(w, Go(Raised(frame[w], "TypeError")))
       \/ \E o \in SearchOutcomes : Apply(w, FetchResultsFirst(frame[w], o))
    /\ UNCHANGED <<apiKey, calls, mvars, xvars>>

R_Fetch2(w) ==
    /\ frame[w].pc = "fetch2"
    /\ \E o \in SearchOutcomes : Apply(w, FetchResultsSecond(frame[w], o))
    /\ UNCHANGED <<apiKey, calls, mvars, xvars>>

\* search_movie calls perform_fallback_movie_search, a name that tmdb_api.py
\* neither defines nor imports.
R_Web(w) ==
    /\ frame[w].pc = "web"
    /\ IF frame[w].args.kind = "movie"
       THEN Apply(w, Go(Raised(frame[w], "NameError")))
       ELSE \E o \in {Fail, Empty, <<"link">>} :
                Apply(w, PerformFallbackTvSearch(frame[w], o))
    /\ UNCHANGED <<apiKey, calls, mvars, xvars>>

\* "cw": the candidate built from the details of the web fallback's first
\* link.
R_Details(w) ==
    /\ frame[w].pc = "details"
    /\ \E o \in {Fail, Empty, <<"cw">>} :
           Apply(w, FallbackDetails(frame[w], o))
    /\ UNCHANGED <<apiKey, calls, mvars, xvars>>

R_YearOnly(w) ==
    /\ frame[w].pc = "yearonly"
    /\ \E o \in SearchOutcomes : Apply(w, YearOnlySearch(frame[w], o))
    /\ UNCHANGED <<apiKey, calls, mvars, xvars>>

R_Prompt(w) ==
    /\ frame[w].pc = "prompt"
    /\ \E c \in Choices : Apply(w, PromptChoice(frame[w], c))
    /\ UNCHANGED <<apiKey, calls, mvars, xvars>>

R_ExtIds(w) ==
    /\ frame[w].pc = "extids"
    /\ \E o \in {Fail, Empty, <<"ids">>} :
           Apply(w, GetExternalIds(frame[w], o))
    /\ UNCHANGED <<apiKey, calls, mvars, xvars>>

\* The caller takes the result (or the exception); the worker is free again.
R_Finish(w) ==
    /\ frame[w].pc \in {"done", "raised"}
    /\ frame' = [frame EXCEPT ![w] = IdleFrame]
    /\ UNCHANGED <<apiKey, cache, lru, calls, completed, mvars, xvars>>

-----------------------------------------------------------------------------
(* The materializer: process_file of Scripts/library.py *)

\* Source paths: files found by the scan, and one that is a directory when
\* process_file looks at it.
FileSources == {"src/a.mkv", "src/b.mkv"}
DirSources == {"src/c"}
Sources == FileSources \cup DirSources

\* Destination paths that process_show / process_movie may compute.
DestPaths == {"dest/M/a.mkv", "dest/S/b.mkv"}

Parent(p) == IF p = "dest/M/a.mkv" THEN "dest/M" ELSE "dest/S"

\* os.path.islink, os.readlink, os.path.exists on the destination tree.
\* A test that takes no path for a symlink.
IsLinkNever(p) == FALSE

IsLink(p) == fs[p] \in Sources

\* A test that finds nothing at any path.
ExistsNever(p) == FALSE

Exists(p) == fs[p] # "absent"

\* The destination root, DESTINATION_DIR.
DestRoot == "dest"

\* A test that takes every configuration for complete.
NotSetNever(c) == FALSE

\* `not src_dirs or not dest_dir`, of get_directories and of __main__.
NotSet(c) == c.src \in {None, ""} \/ c.dest \in {None, ""}

\* The source tree as the scan found it; os.path.isdir of a source path.
SrcTree == [s \in Sources |-> IF s \in DirSources THEN "dir" ELSE "file"]

\* A test that never finds the link of the source.
LinksToNever(p, s) == FALSE

\* `os.path.islink(p) and os.readlink(p) == src_file`
LinksTo(p, s) == IsLink(p) /\ fs[p] = s

\* build_dest_index: every path found under the destination root.
BuildDestIndex == {p \in DestPaths : Exists(p)}

\* A check that never finds the source linked.
SymlinkExistsNever(s) == FALSE

\* The check of process_file against the listing: islink and readlink are
\* evaluated on the tree as it is now, over the paths listed then.
SymlinkExists(s) == \E p \in destIndex : LinksTo(p, s)

\* `was` keeps what the call found at its destination path.
MatIdle == [pc |-> "idle", src |-> None, dest |-> None, out |-> None,
            removed |-> FALSE, was |-> None]

NoStreak == [src |-> None, dest |-> None, n |-> 0, out |-> None,
             fs0 |-> <<>>, dirs0 |-> {}]

\* The history after process_file ended for the pair (s, d) with outcome out
\* and the tree t, directories ds: a pair created from nothing starts a
\* streak, a further call for the pair of the streak extends it.
NextStreak(s, d, out, t, ds) ==
    IF streak.n >= 1 /\ streak.src = s /\ streak.dest = d
    THEN [streak EXCEPT !.n = @ + 1, !.out = out]
    ELSE IF out = "Created" /\ s \in FileSources
    THEN [src |-> s, dest |-> d, n |-> 1, out |-> out, fs0 |-> t, dirs0 |-> ds]
    ELSE NoStreak

\* process_file ends with the outcome out.
MatEnd(w, out, t, ds) ==
    /\ mat' = [mat EXCEPT ![w].pc = "done", ![w].out = out]
    /\ streak' = NextStreak(mat[w].src, mat[w].dest, out, t, ds)

\* create_symlinks submits process_file for a scanned path.
P_Start(w) ==
    /\ run = "scan"
    /\ mat[w].pc = "idle"
    /\ tasks < MaxTasks
    /\ \E s \in Sources :
           mat' = [mat EXCEPT ![w] = [MatIdle EXCEPT !.pc = "snapshot", !.src = s]]
    /\ tasks' = tasks + 1
    /\ UNCHANGED <<fs, dirs, destIndex, streak, rvars, xvars>>

\* `if symlink_exists: return`
P_Snapshot(w) ==
    /\ mat[w].pc = "snapshot"
    /\ IF SymlinkExists(mat[w].src)
       THEN mat' = [mat EXCEPT ![w].pc = "done", ![w].out = "AlreadyLinked"]
       ELSE mat' = [mat EXCEPT ![w].pc = "classify"]
    /\ UNCHANGED <<fs, dirs, destIndex, tasks, streak, rvars, xvars>>

\* process_show / process_movie compute the destination path, or return None
\* and os.path.dirname raises; os.makedirs creates the parent directory.
P_Classify(w) ==
    /\ mat[w].pc = "classify"
    /\ \E d \in DestPaths \cup {None} :
           IF d = None
           THEN /\ mat' = [mat EXCEPT ![w].pc = "raised", ![w].out = "TypeError"]
                /\ UNCHANGED <<dirs, streak>>
           ELSE /\ mat' = [mat EXCEPT ![w].pc = "linktest", ![w].dest = d,
                                      ![w].was = fs[d]]
                /\ dirs' = dirs \cup {Parent(d)}
                /\ streak' = IF streak.src = mat[w].src /\ streak.dest = d
                             THEN streak ELSE NoStreak
    /\ UNCHANGED <<fs, destIndex, tasks, rvars, xvars>>

\* `if os.path.islink(dest_file)`: return when it points to the source,
\* os.remove otherwise.
P_LinkTest(w) ==
    LET d == mat[w].dest
    IN /\ mat[w].pc = "linktest"
       /\ IF IsLink(d)
          THEN IF LinksTo(d, mat[w].src)
               THEN MatEnd(w, "AlreadyLinked", fs, dirs) /\ UNCHANGED fs
               ELSE /\ fs' = [fs EXCEPT ![d] = "absent"]
                    /\ mat' = [mat EXCEPT ![w].pc = "existtest",
                                          ![w].removed = TRUE]
                    /\ UNCHANGED streak
          ELSE /\ mat' = [mat EXCEPT ![w].pc = "existtest"]
               /\ UNCHANGED <<fs, streak>>
       /\ UNCHANGED <<dirs, destIndex, tasks, rvars, xvars>>

\* `if os.path.exists(dest_file) and not os.path.islink(dest_file): return`
P_ExistTest(w) ==
    LET d == mat[w].dest
    IN /\ mat[w].pc = "existtest"
       /\ IF Exists(d) /\ ~IsLink(d)
          THEN MatEnd(w, "Skipped", fs, dirs)
          ELSE mat' = [mat EXCEPT ![w].pc = "create"] /\ UNCHANGED streak
       /\ UNCHANGED <<fs, dirs, destIndex, tasks, rvars, xvars>>

\* shutil.copytree for a directory source, os.symlink otherwise; both raise
\* FileExistsError when the destination is taken (copytree accepts a
\* directory there).
P_Create(w) ==
    LET d == mat[w].dest
        s == mat[w].src
        new == IF s \in DirSources THEN "dir" ELSE s
        t == [fs EXCEPT ![d] = new]
        free == fs[d] = "absent" \/ (s \in DirSources /\ fs[d] = "dir")
    IN /\ mat[w].pc = "create"
       /\ IF free
          THEN /\ fs' = t
               /\ MatEnd(w, IF mat[w].removed THEN "Replaced" ELSE "Created",
                         t, dirs)
          ELSE /\ mat' = [mat EXCEPT ![w].pc = "raised",
                                     ![w].out = "FileExistsError"]
               /\ streak' = NoStreak
               /\ UNCHANGED fs
       /\ UNCHANGED <<dirs, destIndex, tasks, rvars, xvars>>

\* task.result(): the call is over, and its exception is raised again in
\* create_symlinks.
P_Finish(w) ==
    /\ mat[w].pc \in {"done", "raised"}
    /\ mat' = [mat EXCEPT ![w] = MatIdle]
    /\ failed' = (failed \/ mat[w].pc = "raised")
    /\ UNCHANGED <<fs, dirs, destIndex, tasks, streak, rvars, vvars, config,
                   run, srcs, svars>>

\* __main__: get_directories ends the process with sys.exit(1) when a
\* directory is not configured (and __main__ tests the same again);
\* otherwise create_symlinks makes the destination root and lists it.
P_Main ==
    /\ run = "main"
    /\ IF NotSet(config)
       THEN /\ run' = "exit"
            /\ UNCHANGED <<dirs, destIndex>>
       ELSE /\ run' = "scan"
            /\ dirs' = dirs \cup {DestRoot}
            /\ destIndex' = BuildDestIndex
    /\ UNCHANGED <<fs, mat, tasks, streak, rvars, vvars, config, failed, srcs,
                   svars>>

\* The end of create_symlinks: the pool has run every task, and the first
\* exception that task.result() raised leaves create_symlinks and __main__.
P_RunEnd ==
    /\ run = "scan"
    /\ tasks > 0
    /\ \A w \in Workers : mat[w].pc = "idle"
    /\ run' = IF failed THEN "crashed" ELSE "ended"
    /\ UNCHANGED <<fs, dirs, destIndex, mat, tasks, streak, rvars, vvars,
                   config, failed, srcs, svars>>

\* A further run: create_symlinks lists the destination tree again.
P_Reindex ==
    /\ run \in {"ended", "crashed"}
    /\ tasks < MaxTasks
    /\ run' = "scan"
    /\ failed' = FALSE
    /\ destIndex' = BuildDestIndex
    /\ UNCHANGED <<fs, dirs, mat, tasks, streak, rvars, vvars, config, srcs,
                   svars>>

-----------------------------------------------------------------------------
(* Names, and the string functions of the variation lookup *)

\* A name is the sequence of its characters.
Digits == {"0", "1", "2", "5", "9"}

\* \w and \s of the regular expressions.
IsWord(c) ==
    \/ c \in {"A", "a", "B", "C", "D", "H", "M", "R", "S", "b", "c", "d", "e",
               "h", "i", "l", "m", "n", "o", "r", "s", "t", "v", "y"}
    \/ c \in Digits \cup {"_"}
IsSpace(c) == c = " "

\* str.lower(), for the letters of the names.
Lower(c) ==
    CASE c = "A" -> "a" [] c = "B" -> "b" [] c = "C" -> "c" [] c = "D" -> "d"
      [] c = "E" -> "e" [] c = "H" -> "h" [] c = "M" -> "m" [] c = "R" -> "r"
      [] c = "S" -> "s" [] OTHER -> c

\* The characters of s at the positions idx.
Pick(s, idx) == [j \in 1..Len(idx) |-> s[idx[j]]]

\* re.sub(r'\s+', ' ', s).strip()
Squeeze(s) ==
    LET Kept(i) == ~IsSpace(s[i]) \/ (i > 1 /\ ~IsSpace(s[i - 1]))
        t == Pick(s, SelectSeq([i \in 1..Len(s) |-> i], Kept))
    IN IF t # <<>> /\ IsSpace(t[Len(t)]) THEN SubSeq(t, 1, Len(t) - 1) ELSE t

\* str.strip()
Strip(s) ==
    LET body == {i \in 1..Len(s) : ~IsSpace(s[i])}
        Inside(i) == \E j \in body : j <= i /\ \E k \in body : i <= k
    IN Pick(s, SelectSeq([i \in 1..Len(s) |-> i], Inside))

\* normalize_query: '.', '_' and '-' become spaces, every character that is
\* not a word character, a space, a parenthesis or '-' is removed, runs of
\* spaces are squeezed. Letter case is kept.
NormalizeQuery(q) ==
    LET Spaced(c) == IF c \in {".", "_", "-"} THEN " " ELSE c
        a == [i \in 1..Len(q) |-> Spaced(q[i])]
        Stays(c) == IsWord(c) \/ IsSpace(c) \/ c \in {"(", ")", "-"}
    IN Squeeze(SelectSeq(a, Stays))

\* Python values of the year: None, a str or an int, each with its digits.
NoYear == [t |-> "none", v |-> <<>>]
StrYear(d) == [t |-> "str", v |-> d]
IntYear(d) == [t |-> "int", v |-> d]

\* `==` of Python: an int and a str are never equal.
PyEq(a, b) == a = b

\* Truth value of a year: None, '' and 0 are false.
Truthy(y) ==
    CASE y.t = "none" -> FALSE
      [] y.t = "str" -> y.v # <<>>
      [] OTHER -> \E i \in 1..Len(y.v) : y.v[i] # "0"

\* \d{n} at position i of s.
DigitsAt(s, i, n) ==
    i >= 1 /\ i + n - 1 <= Len(s) /\ \A k \in i..(i + n - 1) : s[k] \in Digits

\* The number of digits of a year.
YearLen == 4

\* extract_year: the int of a trailing "(dddd)", else of trailing "dddd".
ExtractYear(q) ==
    LET t == Strip(q)
        n == Len(t)
    IN IF /\ n >= YearLen + 2
          /\ t[n - YearLen - 1] = "(" /\ t[n] = ")"
          /\ DigitsAt(t, n - YearLen, YearLen)
       THEN IntYear(SubSeq(t, n - YearLen, n - 1))
       ELSE IF DigitsAt(t, n - YearLen + 1, YearLen)
       THEN IntYear(SubSeq(t, n - YearLen + 1, n))
       ELSE NoYear

\* `b in a` of Python strings.
Contains(a, b) ==
    \E i \in 0..(Len(a) - Len(b)) : SubSeq(a, i + 1, i + Len(b)) = b

\* The length difference below which a containing name is a partial match.
PartialLimit == 5

\* The first condition of the loop of check_existing_variations.
IsExact(name, year, d) ==
    /\ NormalizeQuery(name) = NormalizeQuery(d)
    /\ PyEq(ExtractYear(d), year) \/ ~Truthy(year) \/ ~Truthy(ExtractYear(d))

\* The second condition of the loop; abs(a - b) < 5 as two comparisons.
IsPartial(name, d) ==
    LET nq == NormalizeQuery(name)
        nd == NormalizeQuery(d)
    IN /\ Contains(nd, nq) \/ Contains(nq, nd)
       /\ Len(nq) - Len(nd) < PartialLimit
       /\ Len(nd) - Len(nq) < PartialLimit

\* The key of min(): (len(x[0]), x[1] != year), compared as tuples.
KeyLeq(year, d, e) ==
    \/ Len(d) < Len(e)
    \/ /\ Len(d) = Len(e)
       /\ ~PyEq(ExtractYear(d), year) => ~PyEq(ExtractYear(e), year)

\* check_existing_variations over the folders t. os.walk lists them in the
\* order of the file system, so every exact match may be the first one met,
\* and every partial match with the least key the first one of the list.
CheckExistingVariations(name, year, t) ==
    LET exact == {d \in t : IsExact(name, year, d)}
        partial == {d \in t : IsPartial(name, d)}
    IN IF exact # {} THEN exact
       ELSE IF partial # {}
       THEN {d \in partial : \A e \in partial : KeyLeq(year, d, e)}
       ELSE {None}

-----------------------------------------------------------------------------
(* Folder names of the items: process_movie and process_show *)

\* Folders that earlier runs may have left under the destination root:
\* 'A (1999)', and names that differ from it in letter case ('a (1999)') or
\* in punctuation ('A_(1999)', 'A (1999)!'), that it contains ('(1999)') or
\* that contain it ('A (1999)2001', '2001A (1999)'), and a truncated
\* 'A (1999'.
EntryNames ==
    {<<"A", " ", "(", "1", "9", "9", "9", ")">>,
     <<"a", " ", "(", "1", "9", "9", "9", ")">>,
     <<"A", "_", "(", "1", "9", "9", "9", ")">>,
     <<"A", " ", "(", "1", "9", "9", "9", ")", "!">>,
     <<"(", "1", "9", "9", "9", ")">>,
     <<"A", " ", "(", "1", "9", "9", "9", ")", "2", "0", "0", "1">>,
     <<"2", "0", "0", "1", "A", " ", "(", "1", "9", "9", "9", ")">>,
     <<"A", " ", "(", "1", "9", "9", "9">>}

\* The canonical folder name computed for an item ('A (1999)', 'a (1999)',
\* 'B (2001)'), with the year that extract_movie_name_and_year took from the
\* parent folder: a str.
Candidates ==
    {[name |-> <<"A", " ", "(", "1", "9", "9", "9", ")">>,
      year |-> StrYear(<<"1", "9", "9", "9">>)],
     [name |-> <<"a", " ", "(", "1", "9", "9", "9", ")">>,
      year |-> StrYear(<<"1", "9", "9", "9">>)],
     [name |-> <<"B", " ", "(", "2", "0", "0", "1", ")">>,
      year |-> StrYear(<<"2", "0", "0", "1">>)]}

\* collection_folder of a movie that the provider reports as part of a
\* collection, with MOVIE_COLLECTION_ENABLED: 'C {tmdb-9}'.
CollectionFolder == <<"C", " ", "{", "t", "m", "d", "b", "-", "9", "}">>

\* coll: collection_folder as computed from the provider's answer, <<>> for
\* None; above: collection_folder of the destination path.
VIdle == [pc |-> "idle", kind |-> None, name |-> <<>>, year |-> NoYear,
          folder |-> <<>>, asked |-> <<>>, seen |-> {}, res |-> None,
          exact |-> FALSE, coll |-> <<>>, above |-> <<>>]

\* A lookup of worker w with the query q: the frame after it.
Looked(f, q, r) ==
    [f EXCEPT !.asked = q, !.seen = tree, !.res = r,
              !.exact = r # None /\ IsExact(q, f.year, r),
              !.folder = IF r # None THEN r ELSE q]

\* process_file hands the item to process_movie or process_show, which
\* computes the canonical folder name.
V_Start(w) ==
    /\ vf[w].pc = "idle"
    /\ items < MaxItems
    /\ \E c \in Candidates, k \in Kinds, g \in {<<>>, CollectionFolder} :
           /\ k = "tv" => g = <<>>
           /\ vf' = [vf EXCEPT ![w] =
                        [VIdle EXCEPT !.pc = IF k = "movie" THEN "lookup1"
                                             ELSE "makedirs",
                                      !.kind = k, !.name = c.name,
                                      !.year = c.year, !.folder = c.name,
                                      !.coll = g, !.above = g]]
    /\ items' = items + 1
    /\ UNCHANGED <<tree, startTree, rvars, mvars, cvars, svars>>

\* process_movie, first check_existing_variations(movie_folder, year,
\* dest_dir).  For a collection resolution_folder is set already: the block
\* of `if 'resolution_folder' not in locals():` with the second check is
\* skipped, and `if existing_variation: if collection_info:
\* collection_folder = existing_variation` takes the result of this check.
V_Lookup1(w) ==
    /\ vf[w].pc = "lookup1"
    /\ \E r \in CheckExistingVariations(vf[w].folder, vf[w].year, tree) :
           vf' = [vf EXCEPT ![w] =
                     IF vf[w].coll = <<>>
                     THEN [Looked(vf[w], vf[w].folder, r) EXCEPT !.pc = "lookup2"]
                     ELSE [Looked(vf[w], vf[w].folder, r) EXCEPT
                              !.pc = "makedirs",
                              !.above = IF r # None THEN r ELSE @]]
    /\ UNCHANGED <<tree, startTree, items, rvars, mvars, cvars, svars>>

\* process_movie, the second check, with the folder name of the first.
V_Lookup2(w) ==
    /\ vf[w].pc = "lookup2"
    /\ \E r \in CheckExistingVariations(vf[w].folder, vf[w].year, tree) :
           vf' = [vf EXCEPT ![w] =
                     [Looked(vf[w], vf[w].folder, r) EXCEPT !.pc = "makedirs"]]
    /\ UNCHANGED <<tree, startTree, items, rvars, mvars, cvars, svars>>

\* os.makedirs of the destination path: the folder of the item and the
\* folders above it exist from now on.
V_Makedirs(w) ==
    /\ vf[w].pc = "makedirs"
    /\ tree' = tree \cup {vf[w].folder}
                    \cup (IF vf[w].kind = "movie"
                          THEN {<<"C", "i", "n", "e", "S", "y", "n", "c">>,
                                <<"M", "o", "v", "i", "e", "s">>}
                          ELSE {})
                    \cup (IF vf[w].coll # <<>>
                          THEN {<<"M", "o", "v", "i", "e", " ", "C", "o", "l",
                                  "l", "e", "c", "t", "i", "o", "n", "s">>,
                                vf[w].above}
                          ELSE {})
    /\ vf' = [vf EXCEPT ![w].pc = "done"]
    /\ UNCHANGED <<startTree, items, rvars, mvars, cvars, svars>>

V_Finish(w) ==
    /\ vf[w].pc = "done"
    /\ vf' = [vf EXCEPT ![w] = VIdle]
    /\ UNCHANGED <<tree, startTree, items, rvars, mvars, cvars, svars>>

-----------------------------------------------------------------------------
(* The season number of process_show *)

\* int() of a string of digits.
RECURSIVE ToInt(_)
ToInt(s) ==
    LET c == s[Len(s)]
        v == CASE c = "0" -> 0 [] c = "1" -> 1 [] c = "2" -> 2 [] c = "5" -> 5
               [] c = "9" -> 9 [] OTHER -> 0
    IN IF s = <<>> THEN 0
       ELSE 10 * ToInt(SubSeq(s, 1, Len(s) - 1)) + v

\* The length of the match of [0-9]* at position i of s.
RunLen(s, i) ==
    Cardinality({n \in 1..(Len(s) - i + 1) : DigitsAt(s, i, n)})

\* s[i] is the character c, or c in the other letter case.
CharAt(s, i, cs) == i >= 1 /\ i <= Len(s) /\ s[i] \in cs

\* The least element of a set of positions.
First(ps) == CHOOSE i \in ps : \A j \in ps : i <= j

\* The position after 'Ep', an optional '.' and spaces: where \d+ must match.
EpDigits(id) ==
    LET a == IF CharAt(id, 3, {"."}) THEN 4 ELSE 3
        spaces == Cardinality({n \in 1..(Len(id) - a + 1) :
                                  \A k \in a..(a + n - 1) : IsSpace(id[k])})
    IN a + spaces

\* re.match(r'Ep\.?\s*\d+', id, re.IGNORECASE)
IsEp(id) ==
    /\ CharAt(id, 1, {"E", "e"}) /\ CharAt(id, 2, {"P", "p"})
    /\ DigitsAt(id, EpDigits(id), 1)

\* re.search(r'S(\d{2})', s, re.IGNORECASE): the positions of a match.
SxxAt(s) == {i \in 1..Len(s) : CharAt(s, i, {"S", "s"}) /\ DigitsAt(s, i + 1, 2)}

\* 'Season\s*(\d+)' with re.IGNORECASE at position i of s: the position of
\* its digits, or 0.
SeasonDigits(s, i) ==
    LET word == <<{"S", "s"}, {"E", "e"}, {"A", "a"}, {"S", "s"}, {"O", "o"},
                  {"N", "n"}>>
        a == i + Len(word)
        spaces == Cardinality({n \in 1..(Len(s) - a + 1) :
                                  \A k \in a..(a + n - 1) : IsSpace(s[k])})
    IN IF /\ \A k \in 1..Len(word) : CharAt(s, i + k - 1, word[k])
          /\ DigitsAt(s, a + spaces, 1)
       THEN a + spaces ELSE 0

\* re.search(r'S(\d{2})|Season\s*(\d+)', parent, re.IGNORECASE):
\* group(1) or group(2) of the leftmost match, or "01" without a match.
FolderSeason(parent) ==
    LET at == SxxAt(parent) \cup {i \in 1..Len(parent) : SeasonDigits(parent, i) > 0}
    IN IF at = {} THEN <<"0", "1">>
       ELSE LET i == First(at)
            IN IF i \in SxxAt(parent) THEN SubSeq(parent, i + 1, i + 2)
               ELSE LET d == SeasonDigits(parent, i)
                    IN SubSeq(parent, d, d + RunLen(parent, d) - 1)

\* The branch of the if-chain of process_show that an episode identifier
\* takes; the tests are those of re.match, in the order of the code.
IdentifierForm(id) ==
    LET r == RunLen(id, 1)
    IN IF /\ CharAt(id, 1, {"S"}) /\ DigitsAt(id, 2, 2)
          /\ CharAt(id, 4, {"e", "E"}) /\ DigitsAt(id, 5, 2)
       THEN "SxxEyy"      \* r'S\d{2}[eE]\d{2}'
       ELSE IF r >= 1 /\ CharAt(id, r + 1, {"x"}) /\ DigitsAt(id, r + 2, 1)
       THEN "NxM"         \* r'[0-9]+x[0-9]+'
       ELSE IF CharAt(id, 1, {"S"}) /\ DigitsAt(id, 2, 3)
       THEN "SxxN"        \* r'S\d{2}[0-9]+'
       ELSE IF r >= 1 /\ CharAt(id, r + 1, {"e"}) /\ DigitsAt(id, r + 2, 1)
       THEN "NeM"         \* r'[0-9]+e[0-9]+'
       ELSE IF IsEp(id) THEN "Ep"
       ELSE "other"

\* The episode identifier as the branch rewrites it.
EpisodeIdentifier(id, parent) ==
    LET r == RunLen(id, 1)
        form == IdentifierForm(id)
        \* episode_identifier.split('x')[1]
        rest == SubSeq(id, r + 2, Len(id))
        xs == {k \in 1..Len(rest) : rest[k] = "x"}
        upto == IF xs # {} THEN First(xs) - 1 ELSE Len(rest)
        \* r'S(\d{2})' in the parent folder, or "01"
        d == EpDigits(id)
        s == IF SxxAt(parent) = {} THEN <<"0", "1">>
             ELSE SubSeq(parent, First(SxxAt(parent)) + 1,
                         First(SxxAt(parent)) + 2)
    IN CASE form = "SxxEyy" -> id
         [] form = "NxM" ->
                <<"S">> \o SubSeq(id, 1, r) \o <<"E">> \o SubSeq(rest, 1, upto)
         [] form = "SxxN" ->
                <<"S">> \o SubSeq(id, 2, 3) \o <<"E">> \o SubSeq(id, 4, Len(id))
         [] form = "NeM" ->
                <<"S">> \o SubSeq(id, 1, 2) \o <<"E">> \o SubSeq(id, 3, Len(id))
         [] form = "Ep" ->
                <<"S">> \o s \o <<"E">> \o SubSeq(id, d, d + RunLen(id, d) - 1)
         [] OTHER -> <<"S", "0", "1", "E", "0", "1">>

\* episode_match is None: the pattern of process_file found no identifier.
NoMatch == <<>>

\* season_number as process_show leaves it before line 559: from the
\* rewritten identifier of an episode (r'S(\d{2})E\d{2}' with re.IGNORECASE,
\* else the first run of digits, else "01"), from the parent folder otherwise.
SeasonNumber(id, parent) ==
    LET e == EpisodeIdentifier(id, parent)
        tagged == {i \in SxxAt(e) :
                      CharAt(e, i + 3, {"E", "e"}) /\ DigitsAt(e, i + 4, 2)}
        digit == {i \in 1..Len(e) : e[i] \in Digits}
    IN IF id = NoMatch THEN FolderSeason(parent)
       ELSE IF tagged # {} THEN SubSeq(e, First(tagged) + 1, First(tagged) + 2)
       ELSE IF digit # {}
       THEN SubSeq(e, First(digit), First(digit) + RunLen(e, First(digit)) - 1)
       ELSE <<"0", "1">>

\* Episode identifiers that the pattern of process_file finds in a file
\* name: S00E01, S01E02, s02e05, 0x05, 1x05, S0105, S0005, 01e05, 0e05, Ep 05.
Identifiers ==
    {<<"S", "0", "0", "E", "0", "1">>,
     <<"S", "0", "1", "E", "0", "2">>,
     <<"s", "0", "2", "e", "0", "5">>,
     <<"0", "x", "0", "5">>,
     <<"1", "x", "0", "5">>,
     <<"S", "0", "1", "0", "5">>,
     <<"S", "0", "0", "0", "5">>,
     <<"0", "1", "e", "0", "5">>,
     <<"0", "e", "0", "5">>,
     <<"E", "p", " ", "0", "5">>}

\* A parent folder whose name carries no season.
ParentPlain == <<"S", "h", "o", "w">>

\* Names of the parent folder of the file: Show, Film 1999, Show S00,
\* Show S02, Season 0, Season 2.
Parents ==
    {ParentPlain,
     <<"F", "i", "l", "m", " ", "1", "9", "9", "9">>,
     <<"S", "h", "o", "w", " ", "S", "0", "0">>,
     <<"S", "h", "o", "w", " ", "S", "0", "2">>,
     <<"S", "e", "a", "s", "o", "n", " ", "0">>,
     <<"S", "e", "a", "s", "o", "n", " ", "2">>}

\* File names: the resolution markers they carry, in the order of the name,
\* as the pattern of extract_resolution_from_filename and the tests for
\* 'remux' see them.
FileNames ==
    LET Markers == {"4K", "2160p", "1080p", "720p", "480p", "2160", "1080",
                    "remux"}
    IN {f \in UNION {[1..n -> Markers] : n \in 0..MaxMarkers} :
           \A i, j \in 1..Len(f) : i # j => f[i] # f[j]}

\* The resolution folder of process_show (kind "tv") and process_movie:
\* a remux tier by the substrings '2160', '4k' and '1080' of the name,
\* otherwise the tier of the leftmost match of the resolution pattern.
ResolutionFolder(kind, file) ==
    LET Has(ms) == \E i \in 1..Len(file) : file[i] \in ms
        at == {i \in 1..Len(file) : file[i] # "remux"}
        resolution == IF at = {} THEN "" ELSE file[First(at)]
        tv == kind = "tv"
    IN IF Has({"remux"})
       THEN IF Has({"2160p", "2160", "4K"})
            THEN (IF tv THEN "UltraHDRemuxShows" ELSE "4KRemux")
            ELSE IF Has({"1080p", "1080"})
            THEN (IF tv THEN "1080pRemuxLibrary" ELSE "1080pRemux")
            ELSE (IF tv THEN "RemuxShows" ELSE "MoviesRemux")
       ELSE CASE resolution \in {"2160p", "4K"} -> "UltraHD"
              [] resolution = "1080p" -> "FullHD"
              [] resolution = "720p" -> (IF tv THEN "SDClassics" ELSE "SDMovies")
              [] resolution = "480p" -> "Retro480p"
              [] OTHER -> (IF tv THEN "Shows" ELSE "Movies")

\* `any(keyword in root.lower() for keyword in [...])` of process_file.
IsShowDirectory(root) ==
    LET low == [i \in 1..Len(root) |-> Lower(root[i])]
    IN \E k \in {<<"s", "e", "a", "s", "o", "n">>,
                 <<"e", "p", "i", "s", "o", "d", "e">>}
               \cup {<<"s", "0", d>> : d \in {"1", "2", "3", "4", "5"}} :
           Contains(low, k)

\* The destination of process_show below 'CineSync', as path components
\* (the show folder is "show", the season folder "Season" with the number
\* of SeasonNumber), <<>> for `return`; and the folder made for Extras.
\* c: the call, with the episode identifier, the skip toggle, and the tier in
\* which a folder of the show exists ("" for none).
ShowDest(c, tier) ==
    LET \* create_extras_folder
        extras == c.id = NoMatch \/ IdentifierForm(c.id) = "other"
        \* find_show_folder_in_resolution_folders
        found == c.exists \in {"UltraHD", "FullHD", "SDClassics", "Retro480p",
                               "RetroDVD", "Shows"}
        base == <<"Shows", tier, "show">>
        extrasBase == <<"Shows", "Extras", "show">>
        existing == <<"Shows", c.exists, "show">>
        seasonDest == base \o <<"Season", "file">>
    IN IF found
       THEN IF c.skip /\ extras
            THEN [extras |-> extras, dest |-> <<>>, made |-> {}]
            ELSE [extras |-> extras,
                  dest |-> IF c.id # NoMatch THEN seasonDest
                           ELSE existing \o <<"Extras", "file">>,
                  made |-> IF extras THEN {existing \o <<"Extras">>} ELSE {}]
       ELSE IF extras /\ ~c.skip
       THEN [extras |-> extras,
             dest |-> IF c.id # NoMatch THEN seasonDest
                      ELSE extrasBase \o <<"Extras", "file">>,
             made |-> {extrasBase}]
       ELSE [extras |-> extras,
             dest |-> IF c.id # NoMatch THEN seasonDest ELSE base \o <<"file">>,
             made |-> {}]

\* extract_movie_name_and_year finds a name and a year in the folder name:
\* a run of four digits after at least one character, and a name before it
\* that is not empty once '.' and '-' are blanks and it is stripped.  (No
\* folder name of the model starts with a number and a dot.)
MovieNameAndYear(folder) ==
    LET at == {i \in 2..Len(folder) : DigitsAt(folder, i, YearLen)}
    IN /\ at # {}
       /\ \E k \in 1..(First(at) - 1) : folder[k] \notin {" ", ".", "-"}

\* No file is being classified.
SIdle == [pc |-> "idle", id |-> NoMatch, parent |-> <<>>, number |-> 0,
          above |-> <<>>, file |-> <<>>, skip |-> FALSE, exists |-> "",
          kind |-> None, tier |-> "", extras |-> FALSE, dest |-> <<>>,
          made |-> {}, raised |-> ""]

\* process_file, lines 800-810, and the function it calls: process_show
\* numbers the season folder and composes the destination, process_movie
\* returns a destination when the folder name gives a name and a year; then
\* `os.path.dirname(dest_file)` raises TypeError when the function returned
\* None.
S_Classify ==
    /\ season.pc = "called"
    /\ LET c == season
           root == c.above \o <<"/">> \o c.parent
           kind == IF c.id # NoMatch \/ IsShowDirectory(root)
                   THEN "tv" ELSE "movie"
           named == kind = "tv" \/ MovieNameAndYear(c.parent)
           tier == IF named THEN ResolutionFolder(kind, c.file) ELSE ""
           d == ShowDest(c, tier)
           dest == IF kind = "tv" THEN d.dest
                   ELSE IF named THEN <<"Movies", tier, "movie", "file">>
                   ELSE <<>>
           raised == IF dest = <<>> THEN "TypeError" ELSE ""
       IN season' =
              IF kind = "tv"
              THEN [c EXCEPT !.pc = "done", !.kind = kind, !.tier = tier,
                             !.number = ToInt(SeasonNumber(c.id, c.parent)),
                             !.extras = d.extras, !.dest = dest,
                             !.made = d.made, !.raised = raised]
              ELSE [c EXCEPT !.pc = "done", !.kind = kind, !.tier = tier,
                             !.dest = dest, !.raised = raised]
    /\ UNCHANGED <<rvars, mvars, vvars, cvars, fn, pool>>

-----------------------------------------------------------------------------
(* get_episode_name of tmdb_api.py, and the name of a chosen candidate *)

\* No function is running.
FIdle == [op |-> None, pc |-> "idle"]

\* The remap of an absolute episode number without the `or`.
MappedEpisodeNumberNoWrap(n, total) ==
    LET k == n % total
    IN <<k \div 10, k % 10>>

\* `str((int(episode_number) % total_season_episodes) or
\* total_season_episodes).zfill(2)`: the two digits of the mapped number.
MappedEpisodeNumber(n, total) ==
    LET k == IF n % total # 0 THEN n % total ELSE total
    IN <<k \div 10, k % 10>>

\* The request for the episode: its name comes back, or the provider
\* answers 404, or the request fails otherwise.
E_Request ==
    /\ fn.op = "episode"
    /\ fn.pc = "request"
    /\ \E o \in {"ok", "404", "fail"} :
           fn' = CASE o = "ok" -> [fn EXCEPT !.pc = "done", !.out = "name",
                                            !.reqs = Append(@, "episode")]
                   [] o = "404" -> [fn EXCEPT !.pc = "season",
                                             !.reqs = Append(@, "episode")]
                   [] OTHER -> [fn EXCEPT !.pc = "done",
                                          !.reqs = Append(@, "episode")]
    /\ UNCHANGED <<rvars, mvars, vvars, cvars, season, pool>>

\* The mapped request without the comparison with the season's length.
BeyondSeasonOrWithin(n, total) == total # 0

\* `if total_season_episodes == 0: return None` and
\* `if int(episode_number) > total_season_episodes:`: the requested number
\* lies beyond a season that has episodes.
BeyondSeason(n, total) == total # 0 /\ n > total

\* After a 404 the season is requested: with no episodes, or with the
\* requested number within the season, the function returns None; a number
\* beyond the season is mapped.
E_Season ==
    /\ fn.op = "episode"
    /\ fn.pc = "season"
    /\ \/ fn' = [fn EXCEPT !.pc = "done", !.reqs = Append(@, "season")]
       \/ \E total \in 0..MaxTotal :
              fn' = IF BeyondSeason(fn.n, total)
                    THEN [fn EXCEPT !.pc = "mapped", !.total = total,
                                    !.mapped = MappedEpisodeNumber(fn.n, total),
                                    !.reqs = Append(@, "season")]
                    ELSE [fn EXCEPT !.pc = "done", !.total = total,
                                    !.reqs = Append(@, "season")]
    /\ UNCHANGED <<rvars, mvars, vvars, cvars, season, pool>>

\* The request for the mapped episode.
E_Mapped ==
    /\ fn.op = "episode"
    /\ fn.pc = "mapped"
    /\ \E ok \in BOOLEAN :
           fn' = [fn EXCEPT !.pc = "done", !.reqs = Append(@, "mapped"),
                            !.out = IF ok THEN "name" ELSE None]
    /\ UNCHANGED <<rvars, mvars, vvars, cvars, season, pool>>

\* remove_keywords of clean_query, in the order of the list.
RemoveKeywords ==
    << <<"U", "n", "r", "a", "t", "e", "d">>,
       <<"R", "e", "m", "a", "s", "t", "e", "r", "e", "d">>,
       <<"I", "M", "A", "X">>, <<"E", "x", "t", "e", "n", "d", "e", "d">>,
       <<"B", "D", "R", "e", "m", "u", "x">>, <<"I", "T", "A">>,
       <<"E", "N", "G">>, <<"x", "2", "6", "5">>, <<"H", "2", "6", "5">>,
       <<"H", "D", "R", "1", "0">>, <<"W", "e", "b", "D", "l">>,
       <<"R", "i", "p">>, <<"4", "K">>, <<"H", "D", "R">>, <<"D", "V">>,
       <<"2", "1", "6", "0", "p">>, <<"B", "D", "R", "i", "p">>,
       <<"A", "C", "3">>, <<"5", ".", "1">>, <<"S", "u", "b">>,
       <<"N", "A", "H", "O", "M">>, <<"m", "k", "v">>,
       <<"C", "o", "m", "p", "l", "e", "t", "e">> >>

\* \b before position i of s: exactly one of the characters around it is a
\* word character (the ends of s count as none).
WordBoundary(s, i) ==
    (i - 1 \in 1..Len(s) /\ IsWord(s[i - 1])) # (i \in 1..Len(s) /\ IsWord(s[i]))

\* r'\b' + re.escape(keyword) + r'\b' with re.IGNORECASE matches at
\* position i of s.
KeywordAt(s, kw, i) ==
    /\ i >= 1 /\ i + Len(kw) - 1 <= Len(s)
    /\ \A k \in 1..Len(kw) : Lower(s[i + k - 1]) = Lower(kw[k])
    /\ WordBoundary(s, i) /\ WordBoundary(s, i + Len(kw))

\* clean_query of library.py.  sub(x, mlen, i) is re.sub(pattern, '', x)
\* from position i on, mlen[i] being the length of the pattern's match at
\* i (0: none): matches are taken from the left and do not overlap.  The
\* year is None (<<>>) or the four digits of the first \b\d{4}\b, and the
\* title is then what stands before it, stripped.
LibCleanQuery(query) ==
    LET RECURSIVE sub(_, _, _)
        sub(x, mlen, i) ==
            IF i > Len(x) THEN <<>>
            ELSE IF mlen[i] > 0 THEN sub(x, mlen, i + mlen[i])
            ELSE <<x[i]>> \o sub(x, mlen, i + 1)
        keyword(x, kw) ==
            sub(x, [i \in 1..Len(x) |-> IF KeywordAt(x, kw, i) THEN Len(kw)
                                        ELSE 0], 1)
        RECURSIVE keywords(_, _)
        keywords(x, k) ==
            IF k > Len(RemoveKeywords) THEN x
            ELSE keywords(keyword(x, RemoveKeywords[k]), k + 1)
        \* r'\bS\d{2}\b.*'
        marker(x) ==
            sub(x, [i \in 1..Len(x) |->
                      IF /\ Lower(x[i]) = "s" /\ DigitsAt(x, i + 1, 2)
                         /\ WordBoundary(x, i) /\ WordBoundary(x, i + 3)
                      THEN Len(x) - i + 1 ELSE 0], 1)
        \* r'\(\s*\)'
        closing(x, i) ==
            {j \in (i + 1)..Len(x) :
                x[j] = ")" /\ \A k \in (i + 1)..(j - 1) : IsSpace(x[k])}
        parens(x) ==
            sub(x, [i \in 1..Len(x) |->
                      IF x[i] = "(" /\ closing(x, i) # {}
                      THEN (CHOOSE j \in closing(x, i) : TRUE) - i + 1
                      ELSE 0], 1)
        q == Squeeze(parens(marker(keywords(query, 1))))
        years == {i \in 1..Len(q) : /\ DigitsAt(q, i, YearLen)
                                     /\ WordBoundary(q, i)
                                     /\ WordBoundary(q, i + YearLen)}
        at == CHOOSE i \in years : \A j \in years : i <= j
    IN IF years # {}
       THEN [title |-> Strip(SubSeq(q, 1, at - 1)),
             year |-> SubSeq(q, at, at + YearLen - 1)]
       ELSE [title |-> q, year |-> <<>>]

\* clean_query is called with the raw name, and then with the title it
\* returned.
Q_Clean ==
    /\ fn.op = "clean"
    /\ \/ /\ fn.pc = "called"
          /\ fn' = [fn EXCEPT !.pc = "once", !.first = LibCleanQuery(fn.raw)]
       \/ /\ fn.pc = "once"
          /\ fn' = [fn EXCEPT !.pc = "done",
                              !.second = LibCleanQuery(fn.first.title)]
    /\ UNCHANGED <<rvars, mvars, vvars, cvars, season, pool>>

\* The words and symbols of the titles: five words with a stylized
\* character, a plain word, and '&'.
Tokens == {<<"t", "0", "p">>, <<"1">>, <<"4">>, <<"5">>, <<"9">>,
           <<"u", "p">>, <<"&">>}

\* standardize_title for a title given as its words and symbols, each a
\* sequence of characters, with single spaces between them.  A word is a
\* match of \b\w+\b; it is affected when it holds a character of
\* [014579@#$%&*3].  affected_count counts the affected words one by one,
\* repetitions included; above 4 every character of the title that has a
\* replacement is replaced ('&' by 'and'), otherwise the title is kept.
StandardizeTitle(title) ==
    LET replacements(c) ==
            CASE c = "0" -> <<"o">> [] c = "1" -> <<"i">> [] c = "4" -> <<"a">>
              [] c = "5" -> <<"s">> [] c = "7" -> <<"t">> [] c = "9" -> <<"g">>
              [] c = "@" -> <<"a">> [] c = "#" -> <<"h">> [] c = "$" -> <<"s">>
              [] c = "%" -> <<"p">> [] c = "&" -> <<"a", "n", "d">>
              [] c = "*" -> <<"x">> [] c = "3" -> <<"e">>
              [] OTHER -> <<c>>
        symbols == {"@", "#", "$", "%", "&", "*"}
        isWord(t) == \A i \in 1..Len(t) : t[i] \notin symbols
        affected(t) == \E i \in 1..Len(t) :
                           t[i] \in {"0", "1", "4", "5", "7", "9", "3"} \cup symbols
        affected_count ==
            Cardinality({i \in 1..Len(title) :
                            isWord(title[i]) /\ affected(title[i])})
        sub[i \in 0..3] ==
            [t \in Tokens |-> IF i = 0 \/ i > Len(t) THEN <<>>
                              ELSE replacements(t[i])]
    IN IF affected_count > 4
       THEN [k \in 1..Len(title) |->
                sub[1][title[k]] \o sub[2][title[k]] \o sub[3][title[k]]]
       ELSE title

\* standardize_title is called with a title.
T_Standardize ==
    /\ fn.op = "standardize"
    /\ fn.pc = "called"
    /\ fn' = [fn EXCEPT !.pc = "done", !.out = StandardizeTitle(fn.title)]
    /\ UNCHANGED <<rvars, mvars, vvars, cvars, season, pool>>

\* create_symlinks before the scan: nothing found, nothing submitted.
PoolIdle == [main |-> "idle", found |-> <<>>, walk |-> <<>>, futures |-> <<>>,
             at |-> 1]

\* `tasks.append(executor.submit(process_file, args))` for the next file of
\* the walk.
W_Submit ==
    /\ pool.main = "scan"
    /\ pool.walk # <<>>
    /\ pool' = [pool EXCEPT
                   !.futures = Append(@, [src |-> Head(pool.walk),
                                          st |-> "queued"]),
                   !.walk = Tail(@)]
    /\ UNCHANGED <<rvars, mvars, vvars, cvars, season, fn>>

\* A free thread of the pool takes the task that was queued first.
W_Run(i) ==
    /\ i \in 1..Len(pool.futures)
    /\ pool.futures[i].st = "queued"
    /\ \A j \in 1..(i - 1) : pool.futures[j].st # "queued"
    /\ Cardinality({j \in 1..Len(pool.futures) :
                        pool.futures[j].st = "running"}) < NumWorkers
    /\ pool' = [pool EXCEPT !.futures[i].st = "running"]
    /\ UNCHANGED <<rvars, mvars, vvars, cvars, season, fn>>

\* process_file returns or raises.
W_End(i) ==
    /\ i \in 1..Len(pool.futures)
    /\ pool.futures[i].st = "running"
    /\ \E st \in {"done", "raised"} :
           pool' = [pool EXCEPT !.futures[i].st = st]
    /\ UNCHANGED <<rvars, mvars, vvars, cvars, season, fn>>

\* `for task in tasks: task.result()`: the walk is over; the wait for the
\* next task ends when it has finished, and raises what the task raised.
W_Result ==
    /\ pool.main = "scan"
    /\ pool.walk = <<>>
    /\ pool.at <= Len(pool.futures)
    /\ pool.futures[pool.at].st \in {"done", "raised"}
    /\ pool' = IF pool.futures[pool.at].st = "raised"
               THEN [pool EXCEPT !.main = "raising"]
               ELSE [pool EXCEPT !.at = @ + 1]
    /\ UNCHANGED <<rvars, mvars, vvars, cvars, season, fn>>

\* The end of the with block without the wait.
W_ShutdownNoWait ==
    /\ \/ pool.main = "scan" /\ pool.walk = <<>> /\ pool.at > Len(pool.futures)
       \/ pool.main = "raising"
    /\ pool' = [pool EXCEPT !.main = IF pool.main = "raising" THEN "crashed"
                                     ELSE "ended"]
    /\ UNCHANGED <<rvars, mvars, vvars, cvars, season, fn>>

\* The end of the with block, after the loop or with the exception on its
\* way out: ThreadPoolExecutor.__exit__ is shutdown(wait=True), which
\* returns when every submitted task has finished; then create_symlinks
\* returns or raises.
W_Shutdown ==
    /\ \A i \in 1..Len(pool.futures) : pool.futures[i].st \in {"done", "raised"}
    /\ W_ShutdownNoWait

\* proper_name of search_tv_show and search_movie for the chosen candidate:
\* title, year and tag.  t: the toggles; ids: the external ids that came
\* back; date: the candidate's first_air_date or release_date.
ProperName(kind, t, ids, date) ==
    LET year == IF date # "" THEN "2020" ELSE "Unknown Year"
        Got(k) == IF k \in ids THEN "id" ELSE ""
    IN IF t.imdb
       THEN <<"title", year, [tag |-> "imdb", id |-> Got("imdb_id")]>>
       ELSE IF kind = "tv"
       THEN IF t.tvdb
            THEN <<"title", year, [tag |-> "tvdb", id |-> Got("tvdb_id")]>>
            ELSE <<"title", year, [tag |-> "tmdb", id |-> "id"]>>
       ELSE IF t.tmdb
       THEN <<"title", year, [tag |-> "tmdb", id |-> "id"]>>
       ELSE <<"title", year>>

\* The name of the chosen candidate is composed and stored.
N_Compose ==
    /\ fn.op = "name"
    /\ fn.pc = "chosen"
    /\ fn' = [fn EXCEPT !.pc = "done",
                        !.name = ProperName(fn.kind, fn.toggles, fn.ids, fn.date)]
    /\ UNCHANGED <<rvars, mvars, vvars, cvars, season, pool>>

-----------------------------------------------------------------------------
(* Specifications *)

\* No resolver call has been made.
RQuiet ==
    /\ cache = [k \in Keys |-> Absent]
    /\ lru = {}
    /\ frame = [w \in Workers |-> IdleFrame]
    /\ calls = 0
    /\ completed = {}

\* No file has been handed to process_file; the destination tree is empty.
MQuiet ==
    /\ fs = [p \in DestPaths |-> "absent"]
    /\ dirs = {}
    /\ destIndex = {}
    /\ mat = [w \in Workers |-> MatIdle]
    /\ tasks = 0
    /\ streak = NoStreak

\* No item has been handed to process_movie or process_show.
VQuiet ==
    /\ tree = {}
    /\ startTree = {}
    /\ vf = [w \in Workers |-> VIdle]
    /\ items = 0

\* create_symlinks is running with both directories configured.
CQuiet ==
    /\ config = [src |-> "path", dest |-> "path"]
    /\ run = "scan"
    /\ failed = FALSE
    /\ srcs = SrcTree

RInit ==
    /\ apiKey \in BOOLEAN
    /\ RQuiet
    /\ MQuiet
    /\ VQuiet
    /\ CQuiet
    /\ season = SIdle
    /\ fn = FIdle
    /\ pool = PoolIdle

RStep(w) ==
    \/ R_KeyCheck(w) \/ R_Lookup(w) \/ R_Fetch1(w) \/ R_Fetch2(w)
    \/ R_Web(w) \/ R_Details(w) \/ R_YearOnly(w) \/ R_Prompt(w)
    \/ R_ExtIds(w) \/ R_Finish(w)

\* One caller, one resolution after the other.
SpecRes == RInit /\ [][R_Call(1) \/ RStep(1)]_vars

\* The workers of the pool resolve concurrently.
SpecRace == RInit /\ [][\E w \in Workers : R_CallRace(w) \/ RStep(w)]_vars

-----------------------------------------------------------------------------
(* The materializer alone *)

\* The destination tree is what earlier runs and the user left there;
\* create_symlinks lists it before the first file is processed.
MInit ==
    /\ apiKey = TRUE
    /\ RQuiet
    /\ fs \in [DestPaths -> {"absent", "file", "dir"} \cup Sources]
    /\ \E root \in SUBSET {DestRoot} :
           LET parents == {Parent(p) : p \in {q \in DestPaths : fs[q] # "absent"}}
           IN /\ parents # {} => root # {}
              /\ dirs = parents \cup root
    /\ destIndex = {}
    /\ mat = [w \in Workers |-> MatIdle]
    /\ tasks = 0
    /\ streak = NoStreak
    /\ VQuiet
    /\ config \in [src : {None, "", "path"}, dest : {None, "", "path"}]
    /\ run = "main"
    /\ failed = FALSE
    /\ srcs = SrcTree
    /\ season = SIdle
    /\ fn = FIdle
    /\ pool = PoolIdle

PStep(w) ==
    \/ P_Start(w) \/ P_Snapshot(w) \/ P_Classify(w) \/ P_LinkTest(w)
    \/ P_ExistTest(w) \/ P_Create(w) \/ P_Finish(w)

\* One worker, one file after the other.
SpecMat == MInit /\ [][P_Main \/ PStep(1) \/ P_RunEnd \/ P_Reindex]_vars

\* The pool of create_symlinks: the tasks of one run on NumWorkers threads.
SpecPool ==
    MInit /\ [][P_Main \/ (\E w \in Workers : PStep(w)) \/ P_RunEnd
                        \/ P_Reindex]_vars

-----------------------------------------------------------------------------
(* The folder names alone *)

\* The destination root holds some folders of earlier runs.
VInit ==
    /\ apiKey = TRUE
    /\ RQuiet
    /\ MQuiet
    /\ tree \in {t \in SUBSET EntryNames : Cardinality(t) <= MaxEntries}
    /\ startTree = tree
    /\ vf = [w \in Workers |-> VIdle]
    /\ items = 0
    /\ CQuiet
    /\ season = SIdle
    /\ fn = FIdle
    /\ pool = PoolIdle

\* The workers of the pool process their items concurrently.
SpecVar ==
    VInit /\ [][\E w \in Workers :
                    \/ V_Start(w) \/ V_Lookup1(w) \/ V_Lookup2(w)
                    \/ V_Makedirs(w) \/ V_Finish(w)]_vars

-----------------------------------------------------------------------------
(* The classification of a file alone *)

\* process_file classifies a file: with the identifier that its pattern
\* matched in the file name, or without one; the file lies in the parent
\* folder, below a folder that may carry a directory token; the skip-extras
\* toggle is on or off, and a folder of the show may exist in a tier.
SInit ==
    /\ apiKey = TRUE
    /\ RQuiet
    /\ MQuiet
    /\ VQuiet
    /\ CQuiet
    /\ \E i \in Identifiers \cup {NoMatch}, p \in Parents, f \in FileNames,
          a \in {<<"t", "v">>, <<"E", "p", "i", "s", "o", "d", "e", "s">>},
          k \in BOOLEAN, e \in {"", "Shows", "RemuxShows"} :
           season = [SIdle EXCEPT !.pc = "called", !.id = i, !.parent = p,
                                  !.above = a, !.file = f, !.skip = k,
                                  !.exists = e]
    /\ fn = FIdle
    /\ pool = PoolIdle

SpecSeason == SInit /\ [][S_Classify]_vars

-----------------------------------------------------------------------------
(* The functions alone *)

\* get_episode_name is called with an episode number, or a candidate has
\* been chosen under some setting of the folder-id toggles.
\* The calls of the functions.  The raw names given to clean_query are made
\* of up to MaxAtoms pieces: title words, a noise token in upper and in
\* lower case, a season marker, the parentheses, a space, a year.
FInit ==
    /\ apiKey = TRUE
    /\ RQuiet
    /\ MQuiet
    /\ VQuiet
    /\ CQuiet
    /\ season = SIdle
    /\ \/ \E n \in 1..MaxEpisode :
              fn = [op |-> "episode", pc |-> "request", n |-> n, total |-> 0,
                    mapped |-> <<>>, out |-> None, reqs |-> <<>>]
       \/ \E k \in Kinds, t \in [imdb : BOOLEAN, tvdb : BOOLEAN, tmdb : BOOLEAN],
             i \in {{}, {"imdb_id", "tvdb_id"}}, d \in {"", "2020-01-01"} :
              fn = [op |-> "name", pc |-> "chosen", kind |-> k, toggles |-> t,
                    ids |-> i, date |-> d, name |-> <<>>]
       \/ LET atoms == {<<"H">>, <<"D", "R">>, <<"H", "D", "R">>,
                        <<"h", "d", "r">>, <<"S", "0", "1">>, <<"(">>, <<")">>,
                        <<" ">>, <<"2", "0", "1", "9">>}
              flat(a) ==
                  LET f[i \in 0..Len(a)] ==
                          IF i = 0 THEN <<>> ELSE f[i - 1] \o a[i]
                  IN f[Len(a)]
          IN \E n \in 0..MaxAtoms : \E a \in [1..n -> atoms] :
                 fn = [op |-> "clean", pc |-> "called", raw |-> flat(a),
                       first |-> <<>>, second |-> <<>>]
       \/ \E n \in 0..MaxWords : \E t \in [1..n -> Tokens] :
              fn = [op |-> "standardize", pc |-> "called", title |-> t,
                    out |-> <<>>]
    /\ pool = PoolIdle

SpecFn ==
    FInit /\ [][E_Request \/ E_Season \/ E_Mapped \/ N_Compose
                       \/ T_Standardize \/ Q_Clean]_vars

\* create_symlinks on its own: the files the walk of the source directories
\* yields, in order; a file under two listed directories is yielded twice.
WInit ==
    /\ apiKey = TRUE
    /\ RQuiet
    /\ MQuiet
    /\ VQuiet
    /\ CQuiet
    /\ season = SIdle
    /\ fn = FIdle
    /\ \E n \in 0..MaxWalk : \E fd \in [1..n -> FileSources] :
           pool = [PoolIdle EXCEPT !.main = "scan", !.found = fd, !.walk = fd]

\* Every thread that can take a step eventually takes one: the pool's
\* threads run, and each call of process_file returns or raises.
SpecWalk ==
    /\ WInit
    /\ [][W_Submit \/ (\E i \in 1..MaxWalk : W_Run(i) \/ W_End(i))
                   \/ W_Result \/ W_Shutdown]_vars
    /\ WF_vars(W_Submit \/ (\E i \in 1..MaxWalk : W_Run(i) \/ W_End(i))
                        \/ W_Result \/ W_Shutdown)

-----------------------------------------------------------------------------
(* Properties of the materializer *)

-----------------------------------------------------------------------------
(* Properties of the resolver *)

Ended(f) == f.pc \in {"done", "raised"}

StoreKey(f) == KeyOf(f.args)

Asked(f, k) == \E i \in 1..Len(f.reqs) : f.reqs[i].k = k

\* C2: once a resolution for a (title, year) key has completed, a later
\* resolution for the same key, whatever its context, issues no network
\* request at all.
C2_NoRequestAfterCompleted ==
    \A w \in Workers : frame[w].late => frame[w].reqs = <<>>

\* A request of worker w meets a transport failure in this step.
FailedNow(w) ==
    /\ Len(frame'[w].reqs) = Len(frame[w].reqs) + 1
    /\ frame'[w].last = "fail"

Core(f) == [f EXCEPT !.last = None]

\* The step of w ends in the state that the outcome o of its request gives.
SameAs(w, o) ==
    LET x == StepRes(frame[w], o)
    IN /\ Core(frame'[w]) = Core(x.f)
       /\ cache' = x.c
       /\ lru' = x.l
       /\ completed' = x.d

\* C3 as stated: a transport failure of any request, the key validation
\* included, is treated as an empty (for the validation: a passing) answer of
\* that step only; the resolution goes on and no exception leaves it.
C3_AnyFailureIsEmpty ==
    [][\A w \in Workers : FailedNow(w) =>
          /\ SameAs(w, IF frame[w].pc = "keycheck" THEN <<"ok">> ELSE Empty)
          /\ frame'[w].pc # "raised"]_vars

\* C3, amended: a transport failure of a search, web fallback, details or
\* external-ids request leaves the resolution exactly where an empty answer
\* to that request leaves it and raises nothing; a transport failure of the
\* key validation ends the resolution with the query returned and nothing
\* stored.
C3_FailureIsEmptyButKeyCheck ==
    [][\A w \in Workers : FailedNow(w) =>
          IF frame[w].pc = "keycheck"
          THEN /\ frame'[w].pc = "done"
               /\ frame'[w].ret = Unres(frame[w].args.q)
               /\ cache' = cache
          ELSE /\ SameAs(w, Empty)
               /\ frame'[w].pc # "raised"]_vars

\* A search request failed and the cascade went on to a later step.
C3_Witness ==
    \E w \in Workers :
        /\ frame[w].last = "fail"
        /\ Len(frame[w].reqs) >= 3
        /\ frame[w].pc \in {"fetch1", "fetch2", "web", "yearonly"}

\* C4: once a cascade step has returned a candidate no later search request
\* is issued, and the candidates of the selection are those of that step.
C4_StopAtFirstHit ==
    \A w \in Workers :
        LET f == frame[w]
        IN /\ \A i \in 1..Len(f.reqs) : f.reqs[i].hit =>
                  \A j \in (i + 1)..Len(f.reqs) : f.reqs[j].k = "extids"
           /\ f.firstHit # <<>> =>
                  f.pc \notin {"fetch1", "fetch2", "web", "details", "yearonly"}
           /\ f.pc \in {"prompt", "extids"} =>
                  f.results = f.firstHit /\ f.firstHit # <<>>
           /\ f.chosen # None =>
                  \E i \in 1..Len(f.firstHit) : f.firstHit[i] = f.chosen

\* A step after the third request returned candidates and one was chosen.
C4_Witness ==
    \E w \in Workers :
        /\ frame[w].pc = "done"
        /\ frame[w].chosen # None
        /\ frame[w].step \notin {"primary", "extracted"}
        /\ Len(frame[w].reqs) >= 4

\* The steps that search through fetch_results.
FetchSteps == {"primary", "extracted", "parenstrip", "cleanfile",
               "cleanquery", "dir"}

YearKnown(f, i) ==
    f.reqs[i].k \in FetchSteps /\ FetchYear(f.reqs[i].k, f.args) # None

Before(f, i, yr) ==
    \E j \in 1..(i - 1) :
        f.reqs[j].k = f.reqs[i].k /\ f.reqs[j].yr = yr /\ ~f.reqs[j].hit

FirstOfStep(f, i) == \A j \in 1..(i - 1) : f.reqs[j].k # f.reqs[i].k

\* Of the requests of one search, the one with the year is the first and the
\* one without it follows an empty answer to the first.
YearFirst(f) ==
    \A i \in 1..Len(f.reqs) : YearKnown(f, i) =>
        IF f.reqs[i].yr THEN FirstOfStep(f, i) ELSE Before(f, i, TRUE)

\* The other way round.
YearSecond(f) ==
    \A i \in 1..Len(f.reqs) : YearKnown(f, i) =>
        IF f.reqs[i].yr THEN Before(f, i, FALSE) ELSE FirstOfStep(f, i)

\* C5 as stated: in TV and in movie resolution the year-qualified request is
\* sent first, the request without the year only after it returned nothing.
C5_YearFirstBoth == \A w \in Workers : YearFirst(frame[w])

\* C5, amended: movie resolution sends the year-qualified request first and
\* the request without the year after an empty answer; TV resolution sends
\* the request without the year first and the year-qualified one after an
\* empty answer.
C5_YearFirstMovieOnly ==
    \A w \in Workers :
        /\ frame[w].args.kind = "movie" => YearFirst(frame[w])
        /\ frame[w].args.kind = "tv" => YearSecond(frame[w])

\* A TV search sent its second request, the one with the year.
C5_Witness ==
    \E w \in Workers :
        /\ frame[w].args.kind = "tv"
        /\ \E i \in 1..Len(frame[w].reqs) :
               YearKnown(frame[w], i) /\ frame[w].reqs[i].yr

\* The place of a request in the order that the claim states; 0 for the
\* requests it does not place.
StatedRank(k) ==
    CASE k = "parenstrip" -> 1
      [] k \in {"web", "details"} -> 2
      [] k = "yearonly" -> 3
      [] k = "cleanquery" -> 4
      [] k = "dir" -> 5
      [] OTHER -> 0

\* The place of a request in the if-chain of search_tv_show.
ChainRank(k) ==
    CASE k = "primary" -> 1
      [] k = "extracted" -> 2
      [] k \in {"web", "details"} -> 3
      [] k = "parenstrip" -> 4
      [] k = "cleanfile" -> 5
      [] k = "yearonly" -> 6
      [] k = "cleanquery" -> 7
      [] k = "dir" -> 8
      [] OTHER -> 0

InOrder(f, Rank(_)) ==
    \A i, j \in 1..Len(f.reqs) :
        (i < j /\ Rank(f.reqs[i].k) > 0 /\ Rank(f.reqs[j].k) > 0) =>
            Rank(f.reqs[i].k) <= Rank(f.reqs[j].k)

\* The cascade ran to its end without a candidate.
RanDry(f) ==
    /\ f.pc = "done"
    /\ Asked(f, "primary")
    /\ \A i \in 1..Len(f.reqs) : ~f.reqs[i].hit

\* C6 as stated: the parenthetical-stripped search comes before the web
\* fallback, the web fallback before the year-only query, the year-only
\* query before the cleaned query, the directory-derived query last.
C6_StatedOrder == \A w \in Workers : InOrder(frame[w], StatedRank)

\* C6, amended: TV resolution attempts its steps in the order primary,
\* extracted title, web fallback, parenthetical-stripped search (with a year
\* only), cleaned file name, year-only (with a year only), cleaned query (if
\* cleaning changes the query), directory-derived query (if a directory is
\* given); a resolution that finds nothing has attempted every one of them.
C6_ChainOrder ==
    \A w \in Workers :
        LET f == frame[w]
        IN f.args.kind = "tv" =>
            /\ InOrder(f, ChainRank)
            /\ RanDry(f) =>
                /\ \A k \in {"primary", "extracted", "web", "cleanfile"} :
                       Asked(f, k)
                /\ f.args.y # None =>
                       Asked(f, "parenstrip") /\ Asked(f, "yearonly")
                /\ CleanQuery(f.args.q).title # f.args.q => Asked(f, "cleanquery")
                /\ f.args.dir # None => Asked(f, "dir")

\* A TV resolution searched with the parenthetical stripped after the web
\* fallback, and later with the directory name.
C6_Witness ==
    \E w \in Workers :
        LET f == frame[w]
        IN /\ f.args.kind = "tv"
           /\ \E i, j \in 1..Len(f.reqs) :
                  i < j /\ f.reqs[i].k = "web" /\ f.reqs[j].k = "parenstrip"
           /\ Asked(f, "dir")

\* The call did not die in clean_query(None), whose behaviour is unknown.
Known(f) == f.ret # Err("TypeError")

\* C7: if every cascade step returns no candidates, the resolution is
\* Unresolved with the original query, and the cache entry of the (query,
\* year) key is that query, in TV and movie resolution and in any context.
C7_UnresolvedWhenNothingFound ==
    \A w \in Workers :
        LET f == frame[w]
        IN (/\ Ended(f) /\ Known(f)
            /\ Asked(f, "primary")
            /\ \A i \in 1..Len(f.reqs) : ~f.reqs[i].hit)
           => /\ f.pc = "done"
              /\ f.ret = Unres(f.args.q)
              /\ cache[StoreKey(f)] = Unres(f.args.q)

Min(a, b) == IF a <= b THEN a ELSE b

\* The choice designates one of the presented candidates.
Designates(c, r) ==
    IsDigit(c) /\ 1 <= IntOf(c) /\ IntOf(c) <= Min(PromptMax, Len(r))

\* C8: a manual choice that designates none of the presented candidates
\* resolves to Unresolved with the original query cached; it never raises
\* and never selects.
C8_InvalidChoiceUnresolved ==
    \A w \in Workers :
        LET f == frame[w]
        IN (f.choice # None /\ ~Designates(f.choice, f.results)) =>
            /\ f.pc # "raised"
            /\ f.chosen = None
            /\ f.pc = "done" =>
                   f.ret = Unres(f.args.q) /\ cache[StoreKey(f)] = Unres(f.args.q)

\* C9: when every query but the directory-derived one finds nothing, the
\* directory-derived query is sent, and its single result is the outcome,
\* stored under the original (query, year) pair.
C9_DirectoryFallback ==
    \A w \in Workers :
        LET f == frame[w]
        IN (/\ Ended(f) /\ Known(f)
            /\ f.args.dir # None
            /\ Asked(f, "primary")
            /\ \A i \in 1..Len(f.reqs) : f.reqs[i].k # "dir" => ~f.reqs[i].hit)
           => /\ Asked(f, "dir")
              /\ Len(f.firstHit) = 1 =>
                  /\ f.pc = "done"
                  /\ f.chosen = f.firstHit[1]
                  /\ cache[StoreKey(f)] \in
                         {Proper(f.chosen, e) : e \in {"ids", "noids"}}
                  /\ \A k \in Keys \ {StoreKey(f)} : cache[k] = Absent

\* C10: a cache entry never changes after it is first written, under any
\* interleaving of workers that miss on the same key.
C10_CacheWriteOnce ==
    [][\A k \in Keys : cache[k] # Absent => cache'[k] = cache[k]]_vars

-----------------------------------------------------------------------------
(* Properties of the variation lookup *)

\* A lookup of worker w has returned.
HasLooked(w) == vf[w].asked # <<>>

\* C11: a variation lookup works on the folders that existed when the run
\* began: the folder it returns is never one that another task of the same
\* run created.
C11_LookupSeesStartOnly ==
    \A w \in Workers :
        HasLooked(w) /\ vf[w].res # None => vf[w].res \in startTree

\* Years as the specification compares them: by their digits.
SameYear(a, b) == a.t # "none" /\ b.t # "none" /\ a.v = b.v
Compatible(a, b) == a.t = "none" \/ b.t = "none" \/ a.v = b.v

\* The entry d collides with the folder name of an item.
Collides(name, year, d) ==
    /\ NormalizeQuery(d) = NormalizeQuery(name)
    /\ Compatible(year, ExtractYear(d))

\* C12: when the tree held, before the run, a folder whose normalized name
\* equals the normalized folder name of an item, with compatible years, the
\* item (movie or episode) is placed in that folder.
C12_CollisionDetected ==
    \A w \in Workers :
        vf[w].pc = "done"
        /\ (\E d \in startTree : Collides(vf[w].name, vf[w].year, d))
        => /\ vf[w].folder \in startTree
           /\ Collides(vf[w].name, vf[w].year, vf[w].folder)

\* C13: an entry with the same normalized name and a year that agrees with
\* that of the query, or with no year on one side, is returned at once, also
\* when shorter entries match partially.
C13_ExactMatchPolicy ==
    \A w \in Workers :
        HasLooked(w)
        /\ (\E d \in vf[w].seen : Collides(vf[w].asked, vf[w].year, d))
        => /\ vf[w].res # None
           /\ Collides(vf[w].asked, vf[w].year, vf[w].res)

\* A name without its letter case and its punctuation.
Fold(q) == NormalizeQuery([i \in 1..Len(q) |-> Lower(q[i])])

\* C14: when an entry differs from the query only in letter case or in
\* punctuation, the lookup returns such an entry.
C14_CaseAndPunctuation ==
    \A w \in Workers :
        HasLooked(w)
        /\ (\E d \in vf[w].seen : Fold(d) = Fold(vf[w].asked))
        => /\ vf[w].res # None
           /\ Fold(vf[w].res) = Fold(vf[w].asked)

\* The key (name length, year mismatch) of the entry d is at most that of e.
StatedLeq(year, d, e) ==
    \/ Len(d) < Len(e)
    \/ /\ Len(d) = Len(e)
       /\ SameYear(ExtractYear(e), year) => SameYear(ExtractYear(d), year)

\* C15: without an exact match, the lookup returns nothing when no entry
\* matches partially, and otherwise a partial match that is least by
\* (name length, year mismatch).
C15_PartialLeast ==
    \A w \in Workers :
        LET f == vf[w]
            partial == {d \in f.seen : IsPartial(f.asked, d)}
        IN HasLooked(w) /\ ~(\E d \in f.seen : Collides(f.asked, f.year, d))
           => IF partial = {} THEN f.res = None
              ELSE /\ f.res \in partial
                   /\ \A e \in partial : StatedLeq(f.year, f.res, e)

-----------------------------------------------------------------------------
(* Properties of process_file at an occupied destination, and of the run *)

\* A regular file or a directory, no symlink.
Regular == {"file", "dir"}

\* C16: when a regular file or a directory is at the destination path, the
\* call ends as Skipped from the existence test, never reaches the creation
\* of a link, and no step of it changes the destination tree.
C16_OccupantKept ==
    [][\A w \in Workers :
           mat[w].was \in Regular
           => /\ fs' = fs
              /\ mat[w].pc # "create"
              /\ mat[w].pc = "existtest"
                 => mat'[w].pc = "done" /\ mat'[w].out = "Skipped"]_vars

C16_Witness ==
    /\ mat[1].pc = "done"
    /\ mat[1].out = "Skipped"
    /\ mat[1].was \in Regular
    /\ fs[mat[1].dest] = mat[1].was

\* The call of worker w found a symlink to another source at its destination.
FoundOtherLink(w) ==
    /\ mat[w].pc \in {"done", "raised"}
    /\ mat[w].was \in Sources
    /\ mat[w].was # mat[w].src

C18_ErrorsContained ==
    failed => run # "crashed"

\* SOURCE_DIR or DESTINATION_DIR is not in the environment.
Missing == config.src = None \/ config.dest = None

\* C19: with a missing source or destination directory the program goes from
\* __main__ to its exit only, and no step creates a directory, lists or
\* changes the destination tree, starts a task, sends a request or decides
\* a folder.
C19_FatalBeforeWork ==
    [][Missing
       => /\ run = "main" => run' = "exit"
          /\ run' \in {"main", "exit"}
          /\ UNCHANGED <<fs, dirs, destIndex, mat, tasks, rvars, vvars>>]_vars

C19_Witness ==
    Missing /\ run = "exit" /\ tasks = 0 /\ calls = 0

-----------------------------------------------------------------------------
(* Properties of the season number *)

\* Neither the identifier nor the parent folder names a season.
NoSeasonKnown ==
    /\ season.id = NoMatch \/ IsEp(season.id)
    /\ season.parent = ParentPlain

\* C20: the number of the season folder is an integer of at least 1, and it
\* is 1 when no season can be determined.
C20_SeasonAtLeastOne ==
    season.pc = "done" /\ season.kind = "tv"
    => /\ season.number >= 1
       /\ NoSeasonKnown => season.number = 1

-----------------------------------------------------------------------------
(* Properties of the classification and the destination *)

\* The file has been classified, as an episode of a show.
ShowDone == season.pc = "done" /\ season.kind = "tv"

\* The pattern of process_file found an identifier that no branch of
\* process_show maps to SxxExx.
Unmapped == season.id # NoMatch /\ IdentifierForm(season.id) = "other"

\* The destination has a 'Season <N>' component.
InSeasonFolder == \E i \in 1..Len(season.dest) : season.dest[i] = "Season"

\* C21: an item whose identifier cannot be mapped to SxxExx is placed in the
\* Extras subfolder of its show: its destination never contains a
\* 'Season <N>' component.
C21_UnmappedInExtras ==
    ShowDone /\ Unmapped => ~InSeasonFolder

\* C22: with the skip-extras toggle enabled, a file flagged as Extras is
\* skipped, whether or not a folder of its show exists: it gets no
\* destination, no folder is made for it, and no error is raised.
C22_ExtrasSkipped ==
    ShowDone /\ season.skip /\ season.extras
    => /\ season.dest = <<>>
       /\ season.made = {}
       /\ season.raised = ""

\* C23: an item flagged as Extras goes to '<existing show folder>/Extras'
\* when a folder of the show exists under any tier, remux tiers included,
\* and no other folder is made for the show; it goes to
\* 'Shows/Extras/<show folder>/Extras' only when the show has no folder.
C23_ExtrasBesideExisting ==
    ShowDone /\ season.extras /\ ~season.skip
    => IF season.exists # ""
       THEN /\ season.dest
                 = <<"Shows", season.exists, "show", "Extras", "file">>
            /\ season.made
                 \subseteq {<<"Shows", season.exists, "show", "Extras">>}
       ELSE season.dest = <<"Shows", "Extras", "show", "Extras", "file">>

\* The path of the file carries a directory-level token: 'season',
\* 'episode', or s0N for a digit N, in any case.
DirectoryToken ==
    LET root == season.above \o <<"/">> \o season.parent
        low == [i \in 1..Len(root) |-> Lower(root[i])]
    IN \/ Contains(low, <<"s", "e", "a", "s", "o", "n">>)
       \/ Contains(low, <<"e", "p", "i", "s", "o", "d", "e">>)
       \/ \E d \in Digits : Contains(low, <<"s", "0", d>>)

\* C24: an item is a Movie exactly when its file name matches no episode
\* pattern and its path carries no directory token; with a directory token
\* and no match in the file name it is an Episode flagged as Extras, of
\* season 1 when the directory names no season.
C24_MovieIffNoSignal ==
    season.pc = "done"
    => /\ season.kind = "movie" <=> (season.id = NoMatch /\ ~DirectoryToken)
       /\ season.id = NoMatch /\ DirectoryToken
           => /\ season.kind = "tv"
              /\ season.extras
              /\ FolderSeason(season.parent) = <<"0", "1">>
                  => season.number = 1

\* The file name carries one of the markers.
Carries(ms) == \E i \in 1..Len(season.file) : season.file[i] \in ms

\* C25: a file name with a 4K or 2160p marker and no remux marker is put in
\* the tier UltraHD, whatever other resolution markers it carries and in
\* whatever order; a file name with a remux marker is put in a remux tier.
C25_MarkerPriority ==
    season.pc = "done" /\ season.tier # ""
    => /\ Carries({"4K", "2160p"}) /\ ~Carries({"remux"})
           => season.tier = "UltraHD"
       /\ Carries({"remux"})
           => season.tier \in {"UltraHDRemuxShows", "1080pRemuxLibrary",
                               "RemuxShows", "4KRemux", "1080pRemux",
                               "MoviesRemux"}

-----------------------------------------------------------------------------
(* Properties of the folder name *)

\* C26: when the year of an item is known, the folder name of its
\* destination contains '(YYYY)' for that year, also when the name is the
\* one of an existing variation.
C26_YearInFolder ==
    \A w \in Workers :
        vf[w].pc = "done" /\ vf[w].year # NoYear
        => Contains(vf[w].folder, <<"(">> \o vf[w].year.v \o <<")">>)

-----------------------------------------------------------------------------
(* Properties of get_episode_name and of the composed name *)

\* The number that two digits stand for.
TwoDigits(d) == 10 * d[1] + d[2]

\* C27: for a season of total >= 1 episodes and a requested number
\* n > total, the mapped episode number is ((n - 1) mod total) + 1, and it
\* lies in 1..total.
C27_RemapInSeason ==
    fn.op = "episode" /\ fn.pc \in {"mapped", "done"}
                      /\ fn.total >= 1 /\ fn.n > fn.total
    => /\ fn.mapped # <<>>
       /\ TwoDigits(fn.mapped) = ((fn.n - 1) % fn.total) + 1
       /\ TwoDigits(fn.mapped) \in 1..fn.total

\* Episode 13 of a season of 10 is mapped to episode 3, and the mapped
\* episode was requested.
C27_Witness ==
    /\ fn.op = "episode" /\ fn.pc = "done"
    /\ fn.total = 10 /\ fn.n = 13 /\ fn.mapped = <<0, 3>>
    /\ fn.reqs = <<"episode", "season", "mapped">>

\* C30: the name of a chosen candidate is title, year and exactly one tag:
\* the IMDb tag when IMDb is preferred, else the TVDB tag for a show when
\* TVDB is preferred, else the TMDb tag; so for every setting of the
\* toggles.
C30_OneTag ==
    fn.op = "name" /\ fn.pc = "done"
    => /\ Len(fn.name) = 3
       /\ fn.name[3].tag
            = IF fn.toggles.imdb THEN "imdb"
              ELSE IF fn.kind = "tv" /\ fn.toggles.tvdb THEN "tvdb"
              ELSE "tmdb"

-----------------------------------------------------------------------------
(* Properties of the selection *)

\* The positions of the external-ids requests among the requests of a call.
ExtIdsAt(f) == {i \in 1..Len(f.reqs) : f.reqs[i].k = "extids"}

\* C28: a resolution sends at most one external-ids request, as its last
\* request and with a candidate chosen; a resolution that returns the query
\* unresolved has sent none.
C28_ExtIdsAfterChoice ==
    \A w \in Workers :
        LET f == frame[w]
        IN /\ Cardinality(ExtIdsAt(f)) <= 1
           /\ ExtIdsAt(f) # {} => ExtIdsAt(f) = {Len(f.reqs)} /\ f.chosen # None
           /\ f.chosen = None => ExtIdsAt(f) = {}
           /\ f.ret.tag = "query" => ExtIdsAt(f) = {}

\* A candidate chosen at the prompt has been resolved with one external-ids
\* request, sent after the search.
C28_Witness ==
    \E w \in Workers :
        LET f == frame[w]
        IN /\ f.pc = "done" /\ f.ret.tag = "name"
           /\ f.choice # None /\ f.chosen # None
           /\ Len(f.reqs) >= 2 /\ ExtIdsAt(f) = {Len(f.reqs)}

\* C29: candidates are listed and the prompt is issued only when
\* auto_select is false and at least two candidates came back, and at most
\* three are listed; with auto_select, or with exactly one candidate, the
\* first candidate is the one selected and nothing is listed or typed.
C29_PromptOnlyWhenAmbiguous ==
    \A w \in Workers :
        LET f == frame[w]
        IN /\ f.pc = "prompt" \/ f.choice # None \/ f.listed # <<>>
               => /\ ~f.args.auto
                  /\ Len(f.results) >= 2
                  /\ f.listed # <<>>
                  /\ Len(f.listed) <= PromptMax
           /\ f.chosen # None /\ (f.args.auto \/ Len(f.results) = 1)
               => /\ f.chosen = f.results[1]
                  /\ f.choice = None
                  /\ f.listed = <<>>

\* Four candidates came back without auto_select: three of them are listed
\* and the prompt is open.
C29_Witness ==
    \E w \in Workers :
        LET f == frame[w]
        IN /\ f.pc = "prompt" /\ ~f.args.auto
           /\ Len(f.results) = 4 /\ Len(f.listed) = 3

-----------------------------------------------------------------------------
(* Properties of the letter case of the identifier *)

\* The identifier has the form SxxEyy, in upper or lower letter case.
SxxEyyAnyCase(id) ==
    /\ Len(id) = 6
    /\ CharAt(id, 1, {"S", "s"}) /\ DigitsAt(id, 2, 2)
    /\ CharAt(id, 4, {"E", "e"}) /\ DigitsAt(id, 5, 2)

\* C40: a file whose name carries an SxxEyy identifier, in upper or lower
\* letter case, is an episode of season xx, placed under 'Season <xx>' and
\* not flagged as Extras.
C40_CaseOfIdentifier ==
    season.pc = "done" /\ SxxEyyAnyCase(season.id)
    => /\ season.kind = "tv"
       /\ season.number = ToInt(SubSeq(season.id, 2, 3))
       /\ ~season.extras
       /\ InSeasonFolder

-----------------------------------------------------------------------------
(* Properties of the returned and the cached value *)

\* C36: a resolver call that has returned, for TV and for movie resolution,
\* returned the value the cache holds for its (title, year) key, the value a
\* later call for that key is served.
C36_ReturnsWhatItStores ==
    \A w \in Workers :
        frame[w].pc = "done" /\ cache[KeyOf(frame[w].args)] # Absent
        => frame[w].ret = cache[KeyOf(frame[w].args)]

-----------------------------------------------------------------------------
(* Properties of the cleaned-file-name step of the movie cascade *)

\* C34: a movie resolution that searched with the cleaned file name ends
\* with a Resolved or Unresolved outcome that is written to the cache, and
\* when that search found nothing it went on to the later steps.
C34_CascadePastCleanedFile ==
    \A w \in Workers :
        LET f == frame[w]
        IN f.args.kind = "movie" /\ Ended(f) /\ Asked(f, "cleanfile")
           => /\ f.pc = "done"
              /\ f.ret.tag \in {"name", "ids", "query"}
              /\ cache[KeyOf(f.args)] # Absent
              /\ (\A i \in 1..Len(f.reqs) : ~f.reqs[i].hit)
                 => Asked(f, "web")

-----------------------------------------------------------------------------
(* Properties of the number of requests of the episode-name lookup *)

\* C39: the episode-name lookup sends the request for the episode once;
\* the season request follows it only, and the request for the mapped
\* episode follows the season request only, once, for a number beyond the
\* season; nothing follows.  A lookup that ended with a season without
\* episodes, or with a failed mapped request, returned None.
C39_LookupBounded ==
    fn.op = "episode"
    => /\ \E k \in 0..3 : fn.reqs = SubSeq(<<"episode", "season", "mapped">>, 1, k)
       /\ fn.pc = "request" <=> fn.reqs = <<>>
       /\ fn.pc = "mapped" => Len(fn.reqs) = 2
       /\ Len(fn.reqs) = 3 => fn.total # 0 /\ fn.n > fn.total
       /\ fn.pc = "done" /\ Len(fn.reqs) = 2 => fn.out = None
       /\ fn.pc = "done" /\ fn.out = "name" => Len(fn.reqs) \in {1, 3}

\* The lookup of a number beyond the season ended after three requests, the
\* mapped one failing, and returned None.
C39_Witness ==
    /\ fn.op = "episode" /\ fn.pc = "done"
    /\ fn.reqs = <<"episode", "season", "mapped">>
    /\ fn.n > fn.total /\ fn.out = None

-----------------------------------------------------------------------------
(* Properties of the task of a source that is linked already *)

\* A listed path is a symlink to the source of worker w's task.
LinkedInSnapshot(w) == \E p \in destIndex : IsLink(p) /\ fs[p] = mat[w].src

\* C37: when a path of the destination listing is a symlink to the task's
\* source, the step of the task after its start ends it: no destination is
\* computed, no request is sent, no directory is made, no link is written.
C37_LinkedSourceEndsAtOnce ==
    [][\A w \in Workers :
           mat[w].pc = "snapshot" /\ LinkedInSnapshot(w) /\ mat'[w] # mat[w]
           => /\ mat'[w].pc = "done"
              /\ mat'[w].dest = None
              /\ fs' = fs /\ dirs' = dirs
              /\ frame' = frame /\ calls' = calls]_vars

\* A task ended without a destination while a listed link points at its
\* source.
C37_Witness ==
    /\ mat[1].pc = "done" /\ mat[1].out = "AlreadyLinked"
    /\ mat[1].dest = None
    /\ LinkedInSnapshot(1)

-----------------------------------------------------------------------------
(* Properties of two tasks with one destination *)

\* C35: two tasks of a run that took two different source files to one
\* destination path, free or a symlink when they came to it, both ended
\* without an error, and the path is a symlink to one of the two sources.
C35_SameDestinationNoError ==
    \A v, w \in Workers :
        (/\ v # w
         /\ Ended(mat[v]) /\ Ended(mat[w])
         /\ mat[v].dest # None /\ mat[v].dest = mat[w].dest
         /\ mat[v].src \in FileSources /\ mat[w].src \in FileSources
         /\ mat[v].src # mat[w].src
         /\ {mat[v].was, mat[w].was} \subseteq {"absent"} \cup FileSources)
        => /\ mat[v].pc = "done" /\ mat[w].pc = "done"
           /\ fs[mat[v].dest] \in {mat[v].src, mat[w].src}

-----------------------------------------------------------------------------
(* Properties of the submission of the tasks and the end of the run *)

\* The call of process_file for the task has returned or raised.
Finished(t) == t.st \in {"done", "raised"}

RECURSIVE SourcesOf(_)
SourcesOf(ts) == IF ts = <<>> THEN <<>>
                 ELSE <<Head(ts).src>> \o SourcesOf(Tail(ts))

\* C38: the tasks submitted so far and the files the walk has yet to yield
\* are, in order, the files the walk yields: each discovered file becomes
\* one task; create_symlinks is over only when the walk is over and every
\* submitted task has finished; and, each task returning, it does get over.
C38_OneTaskEachAndAllAwaited ==
    /\ [](SourcesOf(pool.futures) \o pool.walk = pool.found)
    /\ [](pool.main \in {"ended", "crashed"}
          => /\ pool.walk = <<>>
             /\ \A i \in 1..Len(pool.futures) : Finished(pool.futures[i]))
    /\ <>(pool.main \in {"ended", "crashed"})

\* A run over three files ended with an exception after the first task
\* raised; the other two tasks have finished.
C38_Witness ==
    /\ pool.main = "crashed"
    /\ Len(pool.futures) = MaxWalk
    /\ pool.futures[1].st = "raised"
    /\ pool.at = 1

-----------------------------------------------------------------------------
(* Properties of the standardize pass *)

\* The words of the title in which a stylized character occurs, each once.
AffectedWords(title) ==
    {title[i] : i \in {j \in 1..Len(title) :
        \E k \in 1..Len(title[j]) :
            title[j][k] \in {"0", "1", "4", "5", "7", "9", "3"}}}

\* C33: a title in which at most 4 distinct words hold a stylized
\* character, however often they are repeated, is returned with its
\* characters unchanged.
C33_FourDistinctWordsKept ==
    fn.op = "standardize" /\ fn.pc = "done"
                          /\ Cardinality(AffectedWords(fn.title)) <= 4
    => fn.out = fn.title

-----------------------------------------------------------------------------
(* Properties of the collection folder *)

\* C31: the movie folder of a movie in a collection lies under the
\* collection folder '{collectionName} {tmdb-<collectionId>}' or under a
\* variation of that name that was in the tree, never under a variation
\* found for the movie's own folder name; without a collection there is no
\* collection folder in the path.
C31_CollectionFolderKept ==
    \A w \in Workers :
        vf[w].pc = "done" /\ vf[w].kind = "movie"
        => IF vf[w].coll = <<>>
           THEN vf[w].above = <<>>
           ELSE \/ vf[w].above = vf[w].coll
                \/ IsExact(vf[w].coll, NoYear, vf[w].above)
                \/ IsPartial(vf[w].coll, vf[w].above)

-----------------------------------------------------------------------------
(* Properties of clean_query applied twice *)

\* A configured noise token stands in s as a word of its own.
HasNoiseToken(s) ==
    \E k \in 1..Len(RemoveKeywords), i \in 1..Len(s) :
        KeywordAt(s, RemoveKeywords[k], i)

\* C32: clean_query applied to the title it returned gives the same title
\* and the same year again, and the title it returned holds no configured
\* noise token.
C32_NormalizeIdempotent ==
    fn.op = "clean" /\ fn.pc = "done"
    => /\ fn.second = fn.first
       /\ ~HasNoiseToken(fn.first.title)

=============================================================================
